---- MODULE Spec2Model ----
(***************************************************************************)
(* Model of skills/webapi_crawler_analyzer/scripts/webapi_analyzer.py:     *)
(* the keyword scorer, the four candidate extractors, the endpoint ranker  *)
(* and the depth-bounded crawl controller of WebAPICrawlerAnalyzer, and    *)
(* the entry point webapi_crawler_analyzer_skill.                          *)
(*                                                                         *)
(* Python str values are TLA+ strings (TLC treats them as sequences of     *)
(* one-character strings: Len, \o and SubSeq apply).  Python floats that   *)
(* hold scores are exact rationals <<numerator, denominator>> in lowest    *)
(* terms; for the keyword counts explored here (fewer than five keywords)  *)
(* the IEEE double results of matched/len + 0.2 compare exactly as the     *)
(* rationals do.                                                           *)
(***************************************************************************)
EXTENDS Integers, Sequences, FiniteSets, TLC

VARIABLES
    content,           \* scorer: the text surface handed to _calculate_match_score
    keywords,          \* scorer: the keyword list handed to _calculate_match_score
    scored,            \* scorer: the (matched_keywords, score) pair last returned
    before,            \* scorer: the pair returned for the surface before braces were added
    requests_data,     \* the exchanges appended by handle_request_finished
    html_content,      \* the final HTML text the Capture Collector returns
    data_description,  \* the caller's free-text data description
    ranked,            \* ranker: the (api_endpoints, pagination_api) pair last returned
    analyzer,          \* the WebAPICrawlerAnalyzer instance (self), or None
    call,              \* the last call made on the session and its arguments
    out,               \* what that call produced: a returned result or a raised exception
    captures,          \* how often the Capture Collector was invoked per URL in this session
    paged,             \* pagination detection: the URL last classified and the answer
    linked             \* link extraction: the arguments last given and the list returned

vars == <<content, keywords, scored, before, requests_data, html_content,
          data_description, ranked, analyzer, call, out, captures, paged, linked>>

\* Python's None, where the other values are records or sequences of records
None == [none |-> TRUE]
\* Python's None, where the other values are strings
NoText == "<None>"

-----------------------------------------------------------------------------
(* Bounds of the explored inputs.                                          *)

MaxLen == 3        \* longest surface handed to the scorer on its own
MaxKw == 2         \* longest keyword list handed to the scorer on its own
MaxBatch == 2      \* most exchanges in a batch handed to the ranker on its own
MaxDepth == 2      \* largest max_depth / depth argument explored

-----------------------------------------------------------------------------
(* Text primitives: str.lower, the `in` substring test, slicing.           *)

UpperCase == "ABCDEFGHIJKLMNOPQRSTUVWXYZ"
LowerCase == "abcdefghijklmnopqrstuvwxyz"
DigitChars == {"0", "1", "2", "3", "4", "5", "6", "7", "8", "9"}

\* Python's s[lo-1:hi]: positions lo..hi of s, clipped to the string
Slice(s, lo, hi) ==
    LET a == IF lo < 1 THEN 1 ELSE lo
        b == IF hi > Len(s) THEN Len(s) ELSE hi
    IN  IF a > b THEN "" ELSE SubSeq(s, a, b)

CharAt(s, i) == Slice(s, i, i)

UpperToLower ==
    [c \in {CharAt(UpperCase, i) : i \in 1..Len(UpperCase)} |->
        CharAt(LowerCase, CHOOSE i \in 1..Len(UpperCase) : CharAt(UpperCase, i) = c)]

LowerChar(c) == IF c \in DOMAIN UpperToLower THEN UpperToLower[c] ELSE c

\* the characters the regex class \w accepts
WordChars ==
    {CharAt(UpperCase, i) : i \in 1..Len(UpperCase)}
        \cup {CharAt(LowerCase, i) : i \in 1..Len(LowerCase)}
        \cup DigitChars \cup {"_"}

\* the characters the regex class \s accepts
SpaceChars == {" ", "\t", "\n", "\r", "\f"}

RECURSIVE Lower(_)
Lower(s) == IF Len(s) = 0 THEN ""
            ELSE IF Len(s) = 1 THEN LowerChar(s)
            ELSE Lower(Slice(s, 1, Len(s) \div 2)) \o Lower(Slice(s, Len(s) \div 2 + 1, Len(s)))

\* Python's `sub in s`
Contains(sub, s) ==
    \E i \in 0..(Len(s) - Len(sub)) : Slice(s, i + 1, i + Len(sub)) = sub

\* Python's s[:n]
Truncate(s, n) == Slice(s, 1, n)

StartsAt(s, i, prefix) == i >= 1 /\ Slice(s, i, i + Len(prefix) - 1) = prefix

Min(a, b) == IF a <= b THEN a ELSE b
Max(a, b) == IF a >= b THEN a ELSE b

-----------------------------------------------------------------------------
(* Scores: exact rationals <<n, d>> with d > 0, kept in lowest terms.      *)

RECURSIVE GCD(_, _)
GCD(a, b) == IF b = 0 THEN a ELSE GCD(b, a % b)

Rat(n, d) == LET g == GCD(n, d) IN IF n = 0 THEN <<0, 1>> ELSE <<n \div g, d \div g>>
RatLeq(a, b) == a[1] * b[2] <= b[1] * a[2]
RatLess(a, b) == a[1] * b[2] < b[1] * a[2]
RatMin(a, b) == IF RatLeq(a, b) THEN a ELSE b
RatAdd(a, b) == Rat(a[1] * b[2] + b[1] * a[2], a[2] * b[2])
Zero == <<0, 1>>
One == <<1, 1>>
StructuralBonus == <<1, 5>>     \* the literal 0.2

-----------------------------------------------------------------------------
(* Match Scorer: WebAPICrawlerAnalyzer._calculate_match_score.             *)

MatchedKeywords(text, kws) ==
    LET content_lower == Lower(text)
        Hit(k) == Contains(Lower(k), content_lower)
    IN  SelectSeq(kws, Hit)

BaseScore(matched_keywords, kws) ==
    RatMin(Rat(Len(matched_keywords), Max(Len(kws), 1)), One)

LooksStructured(text) == Contains("{", text) /\ Contains("}", text)

\* the scorer with the second clamp left out
calculate_match_score_unclamped(text, kws) ==
    LET matched_keywords == MatchedKeywords(text, kws)
        base == BaseScore(matched_keywords, kws)
    IN  [matched |-> matched_keywords,
         score |-> IF LooksStructured(text) THEN RatAdd(base, StructuralBonus) ELSE base]

\* the scorer granting the bonus for either brace instead of both
calculate_match_score_either_brace(text, kws) ==
    LET matched_keywords == MatchedKeywords(text, kws)
        base == BaseScore(matched_keywords, kws)
    IN  [matched |-> matched_keywords,
         score |-> IF Contains("{", text) \/ Contains("}", text)
                   THEN RatMin(RatAdd(base, StructuralBonus), One)
                   ELSE base]

calculate_match_score(text, kws) ==
    LET matched_keywords == MatchedKeywords(text, kws)
        base == BaseScore(matched_keywords, kws)
        score == IF LooksStructured(text)
                 THEN RatMin(RatAdd(base, StructuralBonus), One)
                 ELSE base
    IN  [matched |-> matched_keywords, score |-> score]

-----------------------------------------------------------------------------
(* Keyword Extractor: WebAPICrawlerAnalyzer._extract_keywords.             *)

\* re.findall(r'\b\w+\b', text): the maximal runs of word characters, in order
RECURSIVE WordRuns(_, _, _)
WordRuns(text, i, run) ==
    IF i > Len(text)
    THEN IF run = "" THEN << >> ELSE <<run>>
    ELSE IF CharAt(text, i) \in WordChars
         THEN WordRuns(text, i + 1, run \o CharAt(text, i))
         ELSE IF run = "" THEN WordRuns(text, i + 1, "")
              ELSE <<run>> \o WordRuns(text, i + 1, "")

MinKeywordLen == 3     \* len(kw) > 2

LongEnough(kw) == Len(kw) >= MinKeywordLen

extract_keywords(description) ==
    SelectSeq(WordRuns(Lower(description), 1, ""), LongEnough)

-----------------------------------------------------------------------------
(* WebAPICrawlerAnalyzer._extract_url_from_instructions: the first match   *)
(* of https?://[^\s'"<>]+, or ValueError (NoText here) when there is none. *)

UrlStopChars == SpaceChars \cup {"'", "\"", "<", ">"}

\* length of the scheme prefix matched at position i, 0 when none matches
SchemeAt(text, i) ==
    IF StartsAt(text, i, "https://") THEN Len("https://")
    ELSE IF StartsAt(text, i, "http://") THEN Len("http://")
    ELSE 0

\* last position of the run of non-stop characters that starts at position i
RECURSIVE RunEnd(_, _, _)
RunEnd(text, i, stops) ==
    IF i + 1 <= Len(text) /\ CharAt(text, i + 1) \notin stops
    THEN RunEnd(text, i + 1, stops)
    ELSE i

UrlMatchAt(text, i) ==
    LET n == SchemeAt(text, i)
    IN  /\ n > 0
        /\ i + n <= Len(text)
        /\ CharAt(text, i + n) \notin UrlStopChars

extract_url_from_instructions(instructions) ==
    LET starts == {i \in 1..Len(instructions) : UrlMatchAt(instructions, i)}
    IN  IF starts = {} THEN NoText
        ELSE LET i == CHOOSE k \in starts : \A m \in starts : k <= m
             IN  Slice(instructions, i,
                        RunEnd(instructions, i + SchemeAt(instructions, i), UrlStopChars))

-----------------------------------------------------------------------------
(* Pagination Detection: WebAPICrawlerAnalyzer._is_pagination_request.     *)

IsDigit(c) == c \in DigitChars

\* [?&]page=\d+ and [?&]p=\d+
QueryParamAt(url, i, name) ==
    /\ CharAt(url, i) \in {"?", "&"}
    /\ Lower(Slice(url, i + 1, i + Len(name) + 1)) = name \o "="
    /\ i + Len(name) + 2 <= Len(url)
    /\ IsDigit(CharAt(url, i + Len(name) + 2))

\* /page/\d+
PageSegmentAt(url, i) ==
    /\ Lower(Slice(url, i, i + 5)) = "/page/"
    /\ i + 6 <= Len(url)
    /\ IsDigit(CharAt(url, i + 6))

\* /\d+/page
NumberThenPageAt(url, i) ==
    /\ CharAt(url, i) = "/"
    /\ \E j \in (i + 1)..Len(url) :
          /\ \A k \in (i + 1)..j : IsDigit(CharAt(url, k))
          /\ Lower(Slice(url, j + 1, j + 5)) = "/page"

is_pagination_request(url) ==
    \E i \in 1..Len(url) :
        \/ QueryParamAt(url, i, "page")
        \/ QueryParamAt(url, i, "p")
        \/ PageSegmentAt(url, i)
        \/ NumberThenPageAt(url, i)

-----------------------------------------------------------------------------
(* urllib.parse.urlparse(url).netloc and urllib.parse.urljoin, for the     *)
(* absolute, protocol-relative, root-relative, query-only, fragment-only   *)
(* and empty references, and for the relative references of a base whose   *)
(* path has one segment.                                                   *)

\* position of the first "://" of url, 0 when there is none
SchemeEnd(url) ==
    LET at == {i \in 1..Len(url) : StartsAt(url, i, "://")}
    IN  IF at = {} THEN 0 ELSE CHOOSE i \in at : \A m \in at : i <= m

NetlocStopChars == {"/", "?", "#"}

Netloc(url) ==
    LET i == SchemeEnd(url)
    IN  IF i = 0 \/ i + 3 > Len(url) \/ CharAt(url, i + 3) \in NetlocStopChars THEN ""
        ELSE Slice(url, i + 3, RunEnd(url, i + 3, NetlocStopChars))

\* base without its fragment (stops = {"#"}), or without its query and fragment
BaseUpTo(base, stops) ==
    IF CharAt(base, 1) \in stops THEN "" ELSE Slice(base, 1, RunEnd(base, 1, stops))

UrlJoin(base, href) ==
    IF href = "" THEN base
    ELSE IF SchemeEnd(href) > 0 THEN href
    ELSE IF StartsAt(href, 1, "//") THEN Slice(base, 1, SchemeEnd(base)) \o href
    ELSE IF CharAt(href, 1) = "?" THEN BaseUpTo(base, {"?", "#"}) \o href
    ELSE IF CharAt(href, 1) = "#" THEN BaseUpTo(base, {"#"}) \o href
    ELSE IF CharAt(href, 1) = "/"
         THEN Slice(base, 1, SchemeEnd(base) + 2) \o Netloc(base) \o href
         ELSE Slice(base, 1, SchemeEnd(base) + 2) \o Netloc(base) \o "/" \o href

-----------------------------------------------------------------------------
(* Searching text the way the extractors' regular expressions do.          *)

Least(S) == CHOOSE i \in S : \A j \in S : i <= j

\* first position >= from at which sub occurs in text, 0 when there is none
RECURSIVE IndexFrom(_, _, _)
IndexFrom(text, sub, from) ==
    IF from < 1 \/ from + Len(sub) - 1 > Len(text) THEN 0
    ELSE IF \E i \in from..(from + 7) : StartsAt(text, i, sub)
         THEN Least({i \in from..(from + 7) : StartsAt(text, i, sub)})
         ELSE IndexFrom(text, sub, from + 8)

\* first position >= i whose character is not in chars (Len(text) + 1 at the end)
RECURSIVE SkipChars(_, _, _)
SkipChars(text, i, chars) ==
    IF i <= Len(text) /\ CharAt(text, i) \in chars
    THEN SkipChars(text, i + 1, chars)
    ELSE i

\* str.strip()
RECURSIVE StripRight(_)
StripRight(s) ==
    IF Len(s) > 0 /\ CharAt(s, Len(s)) \in SpaceChars
    THEN StripRight(Slice(s, 1, Len(s) - 1))
    ELSE s

Strip(s) == StripRight(Slice(s, SkipChars(s, 1, SpaceChars), Len(s)))

QuoteChars == {"\"", "'"}

\* A TLA+ string cannot hold the backtick character: in the explored texts the
\* circumflex stands for it.
Backtick == "^"

\* the texts name=["']value["'] matches
ScriptAttr(name, value) == {name \o "=" \o q1 \o value \o q2 : q1 \in QuoteChars, q2 \in QuoteChars}

NextDataAttr == ScriptAttr("id", "__NEXT_DATA__")
JsonTypeAttr == ScriptAttr("type", "application/json")

\* re.findall(r'<script[^>]*ATTR[^>]*>(.*?)</script>', text, re.DOTALL) from
\* position from on: the tag must hold ATTR before its first '>', and the group
\* ends at the first '</script>' after it.
RECURSIVE ScriptBlocks(_, _, _)
ScriptBlocks(text, attrs, from) ==
    LET open == IndexFrom(text, "<script", from)
        gt == IF open = 0 THEN 0 ELSE IndexFrom(text, ">", open + Len("<script"))
        has_attr == /\ gt > 0
                    /\ \E a \in attrs : \E j \in (open + Len("<script"))..(gt - Len(a)) :
                          StartsAt(text, j, a)
        close == IF has_attr THEN IndexFrom(text, "</script>", gt + 1) ELSE 0
    IN  IF open = 0 THEN << >>
        ELSE IF close = 0 THEN ScriptBlocks(text, attrs, open + 1)
        ELSE <<Slice(text, gt + 1, close - 1)>>
                 \o ScriptBlocks(text, attrs, close + Len("</script>"))

\* re.findall(r'window\.__DATA__\s*=\s*(\{.*?\});?', text, re.DOTALL)
RECURSIVE WindowDataBlocks(_, _)
WindowDataBlocks(text, from) ==
    LET at == IndexFrom(text, "window.__DATA__", from)
        eq == SkipChars(text, at + Len("window.__DATA__"), SpaceChars)
        lb == SkipChars(text, eq + 1, SpaceChars)
        rb == IndexFrom(text, "}", lb + 1)
        ok == CharAt(text, eq) = "=" /\ CharAt(text, lb) = "{" /\ rb > 0
    IN  IF at = 0 THEN << >>
        ELSE IF ~ok THEN WindowDataBlocks(text, at + 1)
        ELSE <<Slice(text, lb, rb)>>
                 \o WindowDataBlocks(text, IF CharAt(text, rb + 1) = ";" THEN rb + 2 ELSE rb + 1)

\* re.findall(r'JSON\.parse\s*\(\s*[QUOTES](\{.*?\})[QUOTES]\s*\)', text, re.DOTALL)
RECURSIVE JsonParseArgs(_, _, _)
JsonParseArgs(text, quotes, from) ==
    LET at == IndexFrom(text, "JSON.parse", from)
        lp == SkipChars(text, at + Len("JSON.parse"), SpaceChars)
        q == SkipChars(text, lp + 1, SpaceChars)
        opens == CharAt(text, lp) = "(" /\ CharAt(text, q) \in quotes /\ CharAt(text, q + 1) = "{"
        ends == {c \in (q + 2)..Len(text) :
                    /\ CharAt(text, c) = "}"
                    /\ CharAt(text, c + 1) \in quotes
                    /\ CharAt(text, SkipChars(text, c + 2, SpaceChars)) = ")"}
        rb == CHOOSE c \in ends : \A m \in ends : c <= m
    IN  IF at = 0 THEN << >>
        ELSE IF ~opens \/ ends = {} THEN JsonParseArgs(text, quotes, at + 1)
        ELSE <<Slice(text, q + 1, rb)>>
                 \o JsonParseArgs(text, quotes, SkipChars(text, rb + 2, SpaceChars) + 1)

-----------------------------------------------------------------------------
(* json.loads and json.dumps(value, indent=2), for JSON texts made of      *)
(* objects, arrays, integers, true/false/null and strings without escape   *)
(* sequences.  A parsed value is a record tagged with its Python type.     *)

JsonSpaceChars == {" ", "\t", "\n", "\r"}

JsonFail == [ok |-> FALSE]
JsonOk(v, next) == [ok |-> TRUE, value |-> v, next |-> next]

JsonStr(text) == [type |-> "str", text |-> text]
JsonDict(items) == [type |-> "dict", items |-> items]

ParseJsonString(text, i) ==
    LET close == IndexFrom(text, "\"", i + 1)
        body == Slice(text, i + 1, close - 1)
    IN  IF close = 0 \/ \E k \in 1..Len(body) : CharAt(body, k) \in {"\\", "\n", "\t", "\r"}
        THEN JsonFail
        ELSE JsonOk(JsonStr(body), close + 1)

ParseJsonNumber(text, i) ==
    LET start == IF CharAt(text, i) = "-" THEN i + 1 ELSE i
        end == SkipChars(text, start, DigitChars)
    IN  IF end = start THEN JsonFail
        ELSE IF CharAt(text, start) = "0"
             THEN JsonOk([type |-> "num", text |-> Slice(text, i, start)], start + 1)
             ELSE JsonOk([type |-> "num", text |-> Slice(text, i, end - 1)], end)

JsonLiterals == {"true", "false", "null"}

RECURSIVE ParseJsonValue(_, _)
RECURSIVE ParseJsonMembers(_, _, _)
RECURSIVE ParseJsonElements(_, _, _)

ParseJsonValue(text, i) ==
    LET c == CharAt(text, i)
    IN  IF c = "\"" THEN ParseJsonString(text, i)
        ELSE IF c = "{" THEN ParseJsonMembers(text, SkipChars(text, i + 1, JsonSpaceChars), << >>)
        ELSE IF c = "[" THEN ParseJsonElements(text, SkipChars(text, i + 1, JsonSpaceChars), << >>)
        ELSE IF c = "-" \/ IsDigit(c) THEN ParseJsonNumber(text, i)
        ELSE IF \E w \in JsonLiterals : StartsAt(text, i, w)
             THEN LET w == CHOOSE x \in JsonLiterals : StartsAt(text, i, x)
                  IN  JsonOk([type |-> "lit", text |-> w], i + Len(w))
        ELSE JsonFail

\* the members of an object from position i on, after '{' or after ','
ParseJsonMembers(text, i, items) ==
    IF items = << >> /\ CharAt(text, i) = "}" THEN JsonOk(JsonDict(items), i + 1)
    ELSE IF CharAt(text, i) # "\"" THEN JsonFail
    ELSE LET key == ParseJsonString(text, i)
             colon == SkipChars(text, key.next, JsonSpaceChars)
             val == ParseJsonValue(text, SkipChars(text, colon + 1, JsonSpaceChars))
             after == SkipChars(text, val.next, JsonSpaceChars)
             more == Append(items, [key |-> key.value.text, value |-> val.value])
         IN  IF ~key.ok THEN JsonFail
             ELSE IF CharAt(text, colon) # ":" THEN JsonFail
             ELSE IF ~val.ok THEN JsonFail
             ELSE IF CharAt(text, after) = ","
                  THEN ParseJsonMembers(text, SkipChars(text, after + 1, JsonSpaceChars), more)
             ELSE IF CharAt(text, after) = "}" THEN JsonOk(JsonDict(more), after + 1)
             ELSE JsonFail

\* the elements of an array from position i on, after '[' or after ','
ParseJsonElements(text, i, items) ==
    IF items = << >> /\ CharAt(text, i) = "]" THEN JsonOk([type |-> "list", items |-> items], i + 1)
    ELSE LET val == ParseJsonValue(text, i)
             after == SkipChars(text, val.next, JsonSpaceChars)
             more == Append(items, val.value)
         IN  IF ~val.ok THEN JsonFail
             ELSE IF CharAt(text, after) = ","
                  THEN ParseJsonElements(text, SkipChars(text, after + 1, JsonSpaceChars), more)
             ELSE IF CharAt(text, after) = "]"
                  THEN JsonOk([type |-> "list", items |-> more], after + 1)
             ELSE JsonFail

\* json.loads(text): [ok |-> FALSE] stands for json.JSONDecodeError
json_loads(text) ==
    LET r == ParseJsonValue(text, SkipChars(text, 1, JsonSpaceChars))
    IN  IF r.ok /\ SkipChars(text, r.next, JsonSpaceChars) > Len(text) THEN r ELSE JsonFail

RECURSIVE Indent(_)
Indent(level) == IF level = 0 THEN "" ELSE "  " \o Indent(level - 1)

RECURSIVE json_dumps(_, _)
RECURSIVE DumpMembers(_, _, _)
RECURSIVE DumpElements(_, _, _)

\* json.dumps(value, indent=2), value nested level deep
json_dumps(value, level) ==
    IF value.type = "str" THEN "\"" \o value.text \o "\""
    ELSE IF value.type \in {"num", "lit"} THEN value.text
    ELSE IF value.type = "dict"
         THEN IF value.items = << >> THEN "{}"
              ELSE "{\n" \o DumpMembers(value.items, 1, level + 1) \o "\n" \o Indent(level) \o "}"
    ELSE IF value.items = << >> THEN "[]"
         ELSE "[\n" \o DumpElements(value.items, 1, level + 1) \o "\n" \o Indent(level) \o "]"

DumpMembers(items, k, level) ==
    Indent(level) \o "\"" \o items[k].key \o "\": " \o json_dumps(items[k].value, level)
        \o (IF k < Len(items) THEN ",\n" \o DumpMembers(items, k + 1, level) ELSE "")

DumpElements(items, k, level) ==
    Indent(level) \o json_dumps(items[k], level)
        \o (IF k < Len(items) THEN ",\n" \o DumpElements(items, k + 1, level) ELSE "")

-----------------------------------------------------------------------------
(* Captured exchanges and candidate endpoints.                             *)
(* An exchange is the dict handle_request_finished appends: url, method,   *)
(* resource_type, response (NoText for None) and headers.                  *)

\* `if req.get('response')`: neither None nor the empty string
Truthy(text) == text # NoText /\ text # ""

\* dict.get(name, default)
HeaderGet(headers, name, default) == IF name \in DOMAIN headers THEN headers[name] ELSE default

is_json_response(request) ==
    LET content_type == HeaderGet(request.headers, "content-type",
                                  HeaderGet(request.headers, "Content-Type", ""))
    IN  Contains("application/json", Lower(content_type))

APIEndpoint(url, method, priority_score, matched_fields, sample_data, direct_use_example) ==
    [url |-> url, method |-> method, priority_score |-> priority_score,
     matched_fields |-> matched_fields, sample_data |-> sample_data,
     direct_use_example |-> direct_use_example]

\* parsed_json if isinstance(parsed_json, dict) else {"data": parsed_json}
SampleData(parsed_json) ==
    IF parsed_json.type = "dict" THEN parsed_json
    ELSE JsonDict(<<[key |-> "data", value |-> parsed_json]>>)

SampleLimit == 500      \* json.dumps(parsed_json, indent=2)[:500]
PreviewLimit == 200     \* response_text[:200]

RECURSIVE Flatten(_)
Flatten(lists) == IF lists = << >> THEN << >> ELSE Head(lists) \o Flatten(Tail(lists))

\* `if match_result:` followed by the APIEndpoint the extractors build
Candidate(request, m, sample_data, direct_use_example) ==
    IF m.matched = << >> THEN << >>
    ELSE <<APIEndpoint(request.url, request.method, m.score, m.matched, sample_data,
                       direct_use_example)>>

\* the same on a positive score instead of on a match
CandidateOnScore(request, m, sample_data, direct_use_example) ==
    IF m.score = Zero THEN << >>
    ELSE <<APIEndpoint(request.url, request.method, m.score, m.matched, sample_data,
                       direct_use_example)>>

\* json_str = json.dumps(parsed_json, indent=2)[:500], scored against the keywords
EmbeddedCandidate(request, parsed, kws, direct_use_example) ==
    IF ~parsed.ok THEN << >>
    ELSE Candidate(request,
                   calculate_match_score(Truncate(json_dumps(parsed.value, 0), SampleLimit), kws),
                   SampleData(parsed.value), direct_use_example)

\* match.strip(), and the comment markers taken off a match wrapped in them
CleanMatch(stripped) ==
    IF StartsAt(stripped, 1, "/*") /\ Slice(stripped, Len(stripped) - 1, Len(stripped)) = "*/"
    THEN Strip(Slice(stripped, 3, Len(stripped) - 2))
    ELSE stripped

\* what one regex match contributes to the endpoints of a document
DocumentMatchEndpoints(request, match, kws) ==
    EmbeddedCandidate(request, json_loads(CleanMatch(Strip(match))), kws,
                      "Data embedded in HTML: " \o request.url)

\* the endpoints of a document's matches, in order
DocumentEndpoints(request, matches, kws) ==
    Flatten([i \in 1..Len(matches) |-> DocumentMatchEndpoints(request, matches[i], kws)])

\* Document extractor
find_embedded_json_in_html(request, kws) ==
    IF request.response = NoText THEN << >>
    ELSE DocumentEndpoints(request,
                           ScriptBlocks(request.response, NextDataAttr, 1)
                               \o ScriptBlocks(request.response, JsonTypeAttr, 1)
                               \o WindowDataBlocks(request.response, 1),
                           kws)

CurlExample(request) == "curl -X " \o request.method \o " '" \o request.url \o "'"

\* the same with a body that failed to parse scored as raw text
ParsedBodyCandidateOrRawText(request, parsed, kws) ==
    IF ~parsed.ok
    THEN Candidate(request, calculate_match_score(request.response, kws),
                   JsonDict(<<[key |-> "data", value |-> JsonStr(request.response)]>>),
                   CurlExample(request))
    ELSE Candidate(request, calculate_match_score(request.response, kws),
                   SampleData(parsed.value), CurlExample(request))

\* the body of the XHR/Fetch extractor's try block once json.loads returned
ParsedBodyCandidate(request, parsed, kws) ==
    IF ~parsed.ok THEN << >>
    ELSE Candidate(request, calculate_match_score(request.response, kws),
                   SampleData(parsed.value), CurlExample(request))

ParsedBodyCandidateOnScore(request, parsed, kws) ==
    IF ~parsed.ok THEN << >>
    ELSE CandidateOnScore(request, calculate_match_score(request.response, kws),
                          SampleData(parsed.value), CurlExample(request))

\* the XHR/Fetch extractor emitting on a positive score instead of on a match
analyze_json_response_on_score(request, kws) ==
    IF request.response = NoText THEN << >>
    ELSE ParsedBodyCandidateOnScore(request, json_loads(request.response), kws)

\* XHR/Fetch extractor
analyze_json_response_intelligently(request, kws) ==
    IF request.response = NoText THEN << >>
    ELSE ParsedBodyCandidate(request, json_loads(request.response), kws)

\* what one regex match contributes to the endpoints of a script
ScriptMatchEndpoints(request, match, kws) ==
    EmbeddedCandidate(request, json_loads(Strip(match)), kws,
                      "JS file contains data: " \o request.url)

\* the endpoints of a script's matches, in order
ScriptEndpoints(request, matches, kws) ==
    Flatten([i \in 1..Len(matches) |-> ScriptMatchEndpoints(request, matches[i], kws)])

\* Script extractor
analyze_js_for_json(request, kws) ==
    IF request.response = NoText THEN << >>
    ELSE ScriptEndpoints(request,
                         JsonParseArgs(request.response, QuoteChars \cup {Backtick}, 1)
                             \o JsonParseArgs(request.response, {Backtick}, 1),
                         kws)

\* Other extractor
analyze_text_response(request, kws) ==
    IF request.response = NoText THEN << >>
    ELSE Candidate(request, calculate_match_score(request.response, kws),
                   JsonDict(<<[key |-> "content_preview",
                               value |-> JsonStr(Truncate(request.response, PreviewLimit))]>>),
                   CurlExample(request))

-----------------------------------------------------------------------------
(* Endpoint Ranker: WebAPICrawlerAnalyzer._analyze_requests_intelligently. *)

\* x put ahead of the elements of the descending list that tie with it
InsertByScoreAheadOfTies(sorted, x) ==
    LET ahead == {i \in 1..Len(sorted) : RatLess(x.priority_score, sorted[i].priority_score)}
        k == IF ahead = {} THEN 0 ELSE CHOOSE i \in ahead : \A j \in ahead : j <= i
    IN  SubSeq(sorted, 1, k) \o <<x>> \o SubSeq(sorted, k + 1, Len(sorted))

\* x put behind every element of the descending list whose score is not lower
InsertByScore(sorted, x) ==
    LET ahead == {i \in 1..Len(sorted) : ~RatLess(sorted[i].priority_score, x.priority_score)}
        k == IF ahead = {} THEN 0 ELSE CHOOSE i \in ahead : \A j \in ahead : j <= i
    IN  SubSeq(sorted, 1, k) \o <<x>> \o SubSeq(sorted, k + 1, Len(sorted))

\* list.sort(key=lambda x: x.priority_score, reverse=True): descending and stable
RECURSIVE SortByScoreDescending(_)
SortByScoreDescending(endpoints) ==
    IF endpoints = << >> THEN << >>
    ELSE InsertByScore(SortByScoreDescending(SubSeq(endpoints, 1, Len(endpoints) - 1)),
                       endpoints[Len(endpoints)])

IsDocument(req) == req.resource_type = "document"
IsXhrWithBody(req) == req.resource_type \in {"xhr", "fetch"} /\ Truthy(req.response)
IsScriptWithBody(req) == req.resource_type = "script" /\ Truthy(req.response)
IsOtherWithBody(req) ==
    /\ req.resource_type \notin {"document", "xhr", "fetch", "script"}
    /\ Truthy(req.response)

\* the same keeping the first such url
PaginationApiFirst(xhr_requests) ==
    LET hits == {i \in 1..Len(xhr_requests) :
                    /\ is_json_response(xhr_requests[i])
                    /\ is_pagination_request(xhr_requests[i].url)}
    IN  IF hits = {} THEN NoText
        ELSE xhr_requests[CHOOSE i \in hits : \A j \in hits : i <= j].url

\* the url of the last xhr/fetch request with a JSON content-type whose url is
\* pagination-shaped, None when there is none
PaginationApi(xhr_requests) ==
    LET hits == {i \in 1..Len(xhr_requests) :
                    /\ is_json_response(xhr_requests[i])
                    /\ is_pagination_request(xhr_requests[i].url)}
    IN  IF hits = {} THEN NoText
        ELSE xhr_requests[CHOOSE i \in hits : \A j \in hits : j <= i].url

analyze_requests_intelligently(requests, kws) ==
    LET html_requests == SelectSeq(requests, IsDocument)
        xhr_requests == SelectSeq(requests, IsXhrWithBody)
        js_requests == SelectSeq(requests, IsScriptWithBody)
        other_requests == SelectSeq(requests, IsOtherWithBody)
        from_html == Flatten([i \in 1..Len(html_requests) |->
                        find_embedded_json_in_html(html_requests[i], kws)])
        from_xhr == Flatten([i \in 1..Len(xhr_requests) |->
                        IF is_json_response(xhr_requests[i])
                        THEN analyze_json_response_intelligently(xhr_requests[i], kws)
                        ELSE << >>])
        from_js == Flatten([i \in 1..Len(js_requests) |->
                        analyze_js_for_json(js_requests[i], kws)])
        from_other == Flatten([i \in 1..Len(other_requests) |->
                        analyze_text_response(other_requests[i], kws)])
    IN  [api_endpoints |-> SortByScoreDescending(from_html \o from_xhr \o from_js \o from_other),
         pagination_api |-> PaginationApi(xhr_requests)]

-----------------------------------------------------------------------------
(* The scorer on its own: every surface and keyword list within the bounds *)
(* is scored; a brace pair is then added to a surface that lacked one and  *)
(* the surface is scored again.                                            *)

ScoreAlphabet == {"a", "A", "b", "{", "}"}
ScoreTerms == {"a", "ab", "B", "{"}

RECURSIVE Strings(_, _)
Strings(alphabet, n) ==
    IF n = 0 THEN {""}
    ELSE LET shorter == Strings(alphabet, n - 1)
         IN  shorter \cup {s \o c : s \in shorter, c \in alphabet}

RECURSIVE SeqsUpTo(_, _)
SeqsUpTo(S, n) ==
    IF n = 0 THEN {<<>>}
    ELSE LET shorter == SeqsUpTo(S, n - 1)
         IN  shorter \cup {Append(q, x) : q \in shorter, x \in S}

\* content with "{" put in after position i and "}" after position j >= i
WithBracePair(s, i, j) ==
    Slice(s, 1, i) \o "{" \o Slice(s, i + 1, j) \o "}" \o Slice(s, j + 1, Len(s))

NoSession ==
    /\ analyzer = None
    /\ call = None
    /\ out = None
    /\ captures = << >>

NoBatch ==
    /\ requests_data = << >>
    /\ html_content = ""
    /\ data_description = ""
    /\ ranked = None

NoProbe ==
    /\ paged = None
    /\ linked = None

NoSurface ==
    /\ content = ""
    /\ keywords = << >>
    /\ scored = None
    /\ before = None

InitScore ==
    /\ content \in Strings(ScoreAlphabet, MaxLen)
    /\ keywords \in SeqsUpTo(ScoreTerms, MaxKw)
    /\ scored = None
    /\ before = None
    /\ NoBatch
    /\ NoSession
    /\ NoProbe

ScoreSurface ==
    /\ scored = None
    /\ scored' = calculate_match_score(content, keywords)
    /\ UNCHANGED <<content, keywords, before, requests_data, html_content,
                   data_description, ranked, analyzer, call, out, captures,
                   paged, linked>>

AddBracePair ==
    /\ scored # None
    /\ before = None
    /\ ~LooksStructured(content)
    /\ \E i \in 0..Len(content) : \E j \in i..Len(content) :
          /\ content' = WithBracePair(content, i, j)
          /\ scored' = calculate_match_score(content', keywords)
    /\ before' = scored
    /\ UNCHANGED <<keywords, requests_data, html_content, data_description,
                   ranked, analyzer, call, out, captures, paged, linked>>

NextScore == ScoreSurface \/ AddBracePair

SpecScore == InitScore /\ [][NextScore]_vars

-----------------------------------------------------------------------------
(* Capture Collector, the part in this file: handle_request_finished turns *)
(* a finished request into an exchange, or drops it.  A finished request   *)
(* is [url, method, resource_type, status, text, headers]: status 0 stands *)
(* for no response, text NoText for a body response.text() cannot decode.  *)

StaticResourceTypes == {"stylesheet", "image", "media", "font"}

StatusOkFrom == 200      \* 200 <= response.status
StatusOkBelow == 300     \* response.status < 300

BinaryPlaceholder == "[Binary response of unknown bytes]"

ResponseText(finished) ==
    IF finished.status = 0 THEN NoText
    ELSE IF StatusOkFrom <= finished.status /\ finished.status < StatusOkBelow
         THEN IF finished.text = NoText THEN BinaryPlaceholder ELSE finished.text
         ELSE NoText

\* the list `requests` after the handler ran for one finished request
handle_request_finished(requests, finished) ==
    IF finished.resource_type \in StaticResourceTypes THEN requests
    ELSE Append(requests, [url |-> finished.url,
                           method |-> finished.method,
                           resource_type |-> finished.resource_type,
                           response |-> ResponseText(finished),
                           headers |-> finished.headers,
                           status |-> finished.status])

-----------------------------------------------------------------------------
(* The finished requests explored.                                         *)

ObjPrice == "{\"Price\":1}"
ObjBoth == "{\"name\":\"Phone X\",\"price\":599}"
StrPrice == "\"Price\""
BracedPrice == "{Price}"

NextDataTag(payload) == "<script id=\"__NEXT_DATA__\">" \o payload \o "</script>"
NextDataJsonTag(payload) ==
    "<script id=\"__NEXT_DATA__\" type=\"application/json\">" \o payload \o "</script>"
JsonScriptTag(payload) == "<script type='application/json'>" \o payload \o "</script>"
WindowDataScript(payload) == "<script>window.__DATA__ = " \o payload \o ";</script>"
JsonParseCall(quote, payload) == "var d = JSON.parse(" \o quote \o payload \o quote \o ");"

PageUrl == "https://x.com/items"
ApiUrl == "https://x.com/api/items"
PagedApiUrl == "https://x.com/api/items?page=2"
NextPagedApiUrl == "https://x.com/api/items?p=3"
ScriptUrl == "https://x.com/app.js"
OtherUrl == "https://x.com/feed"

NoHeaders == << >>
JsonHeaders == [h \in {"content-type"} |-> "Application/JSON; charset=utf-8"]

Finished(url, method, resource_type, status, text, headers) ==
    [url |-> url, method |-> method, resource_type |-> resource_type,
     status |-> status, text |-> text, headers |-> headers]

DocumentBodies ==
    {NextDataTag(ObjPrice), NextDataTag(StrPrice), NextDataTag(BracedPrice),
     NextDataTag(" /* " \o ObjPrice \o " */ "), NextDataJsonTag(ObjPrice),
     JsonScriptTag(ObjBoth), JsonScriptTag(ObjPrice) \o NextDataTag(StrPrice),
     WindowDataScript(ObjPrice), WindowDataScript(BracedPrice)}

FinishedDocuments ==
    {Finished(PageUrl, "GET", "document", 200, body, NoHeaders) : body \in DocumentBodies}
        \cup {Finished(PageUrl, "GET", "document", 404, "<h1>Price</h1>", NoHeaders)}

FinishedXhr ==
    {Finished(url, "GET", "xhr", 200, ObjPrice, headers) :
        url \in {ApiUrl, PagedApiUrl}, headers \in {NoHeaders, JsonHeaders}}
        \cup {Finished(ApiUrl, "GET", "xhr", 200, BracedPrice, JsonHeaders)}
        \cup {Finished(ApiUrl, "POST", "fetch", 200, body, JsonHeaders) :
                body \in {ObjBoth, StrPrice}}
        \cup {Finished(PagedApiUrl, "GET", "xhr", 0, ObjPrice, JsonHeaders)}

FinishedScripts ==
    {Finished(ScriptUrl, "GET", "script", 200, body, NoHeaders) :
        body \in {JsonParseCall("'", ObjPrice), JsonParseCall("\"", BracedPrice),
                  JsonParseCall(Backtick, ObjPrice), "var d = " \o ObjPrice \o ";"}}

FinishedOthers ==
    {Finished(OtherUrl, "GET", "other", 200, body, NoHeaders) :
        body \in {ObjPrice, StrPrice, BracedPrice, ObjBoth, NoText}}

FinishedStatic == {Finished("https://x.com/logo.png", "GET", "image", 200, NoText, NoHeaders)}

FinishedRequests ==
    FinishedDocuments \cup FinishedXhr \cup FinishedScripts \cup FinishedOthers
        \cup FinishedStatic

Descriptions == {"price, name", "Price", "name, stock", ""}

-----------------------------------------------------------------------------
(* The ranker on its own: a batch of up to MaxBatch exchanges is captured, *)
(* then analysed against the keywords of a description.                    *)

InitRank ==
    /\ requests_data = << >>
    /\ html_content = ""
    /\ data_description \in Descriptions
    /\ ranked = None
    /\ NoSurface
    /\ NoSession
    /\ NoProbe

RequestFinished ==
    /\ ranked = None
    /\ Len(requests_data) < MaxBatch
    /\ \E finished \in FinishedRequests :
          requests_data' = handle_request_finished(requests_data, finished)
    /\ UNCHANGED <<content, keywords, scored, before, html_content, data_description,
                   ranked, analyzer, call, out, captures, paged, linked>>

AnalyzeRequests ==
    /\ ranked = None
    /\ ranked' = analyze_requests_intelligently(requests_data,
                                                extract_keywords(data_description))
    /\ UNCHANGED <<content, keywords, scored, before, requests_data, html_content,
                   data_description, analyzer, call, out, captures, paged, linked>>

NextRank == RequestFinished \/ AnalyzeRequests

SpecRank == InitRank /\ [][NextRank]_vars

-----------------------------------------------------------------------------
(* The ranker over batches of well-formed and malformed bodies of every    *)
(* class, two of them XHR/Fetch exchanges with pagination-shaped URLs.     *)

FinishedBodies ==
    {Finished(PageUrl, "GET", "document", 200, NextDataTag(body), NoHeaders) :
        body \in {ObjPrice, BracedPrice}}
        \cup {Finished(ApiUrl, "GET", "xhr", 200, BracedPrice, JsonHeaders),
              Finished(PagedApiUrl, "GET", "xhr", 200, ObjPrice, JsonHeaders),
              Finished(PagedApiUrl, "GET", "xhr", 200, ObjPrice, NoHeaders),
              Finished(NextPagedApiUrl, "GET", "fetch", 200, "not json", JsonHeaders),
              Finished(NextPagedApiUrl, "GET", "xhr", 200, "", JsonHeaders)}
        \cup {Finished(ScriptUrl, "GET", "script", 200, body, NoHeaders) :
                body \in {JsonParseCall("'", ObjPrice), JsonParseCall("\"", BracedPrice)}}
        \cup {Finished(OtherUrl, "GET", "other", 200, body, NoHeaders) :
                body \in {ObjPrice, BracedPrice}}

BodyFinished ==
    /\ ranked = None
    /\ Len(requests_data) < MaxBatch
    /\ \E finished \in FinishedBodies :
          requests_data' = handle_request_finished(requests_data, finished)
    /\ UNCHANGED <<content, keywords, scored, before, html_content, data_description,
                   ranked, analyzer, call, out, captures, paged, linked>>

NextBodies == BodyFinished \/ AnalyzeRequests

SpecBodies == InitRank /\ [][NextBodies]_vars

-----------------------------------------------------------------------------
(* WebAPICrawlerAnalyzer._extract_links_for_next_depth.                    *)

\* re.findall(r'<a[^>]+href=["\']([^"\']+)["\']', text, re.IGNORECASE) from
\* position from on; lowered is text in lower case
RECURSIVE HrefMatches(_, _, _)
HrefMatches(text, lowered, from) ==
    LET open == IndexFrom(lowered, "<a", from)
        gt == IndexFrom(text, ">", open + 2)
        limit == IF gt = 0 THEN Len(text) + 1 ELSE gt
        QuoteAfter(j) == RunEnd(text, j + 5, QuoteChars) + 1
        starts == {j \in (open + 3)..(limit - 1) :
                      /\ StartsAt(lowered, j, "href=")
                      /\ CharAt(text, j + 5) \in QuoteChars
                      /\ QuoteAfter(j) > j + 6
                      /\ CharAt(text, QuoteAfter(j)) \in QuoteChars}
        at == CHOOSE j \in starts : \A k \in starts : k <= j
    IN  IF open = 0 THEN << >>
        ELSE IF starts = {} THEN HrefMatches(text, lowered, open + 1)
        ELSE <<Slice(text, at + 6, QuoteAfter(at) - 1)>>
                 \o HrefMatches(text, lowered, QuoteAfter(at) + 1)

SensitivePaths == {"/auth/", "/login/", "/admin/"}

\* the links one document contributes
\* the same with the sensitive paths looked for in full_url as written
KeepsLinkAsWritten(full_url, base_domain, include_pagination) ==
    /\ Netloc(full_url) = base_domain
    /\ ~(~include_pagination /\ is_pagination_request(full_url))
    /\ ~\E sensitive \in SensitivePaths : Contains(sensitive, full_url)

\* lines 650-665: the conditions under which full_url is added to links
KeepsLink(full_url, base_domain, include_pagination) ==
    /\ Netloc(full_url) = base_domain
    /\ ~(~include_pagination /\ is_pagination_request(full_url))
    /\ ~\E sensitive \in SensitivePaths : Contains(sensitive, Lower(full_url))

JoinedLinks(base, hrefs) == {UrlJoin(base, hrefs[i]) : i \in 1..Len(hrefs)}

DocumentLinks(req, base_domain, include_pagination) ==
    {full_url \in JoinedLinks(req.url, HrefMatches(req.response, Lower(req.response), 1)) :
        KeepsLink(full_url, base_domain, include_pagination)}

\* the set `links` the method builds; it returns list(links), in an order that
\* the set's hashing decides
extract_links_for_next_depth(requests, base_url, include_pagination) ==
    LET base_domain == Netloc(base_url)
        html_responses == {i \in 1..Len(requests) :
                              /\ requests[i].resource_type = "document"
                              /\ Truthy(requests[i].response)}
    IN  UNION {DocumentLinks(requests[i], base_domain, include_pagination) :
                  i \in html_responses}

\* the lists list(links) can be
Orderings(S) ==
    {order \in [1..Cardinality(S) -> S] :
        \A i \in 1..Cardinality(S) : \A j \in 1..Cardinality(S) :
            order[i] = order[j] => i = j}

-----------------------------------------------------------------------------
(* WebAPICrawlerAnalyzer._generate_fallback_selectors.  BeautifulSoup is   *)
(* external: an element of class X is found where the markup holds         *)
(* class="X", an element of tag t where it holds <t; a selector entry is   *)
(* kept as its "element" name alone.                                       *)

\* a TLA+ string cannot hold the four CJK characters the title is searched for
\* (U+5B89 U+5168 U+9A8C U+8BC1, "security verification"); this text stands for them
SecurityVerification == "[an quan yan zheng]"

TitleText(html) ==
    LET open == IndexFrom(html, "<title>", 1)
        close == IndexFrom(html, "</title>", open + 1)
    IN  IF open = 0 \/ close = 0 THEN NoText
        ELSE Slice(html, open + Len("<title>"), close - 1)

HasCss(html, css) ==
    IF CharAt(css, 1) = "."
    THEN Contains("class=\"" \o Slice(css, 2, Len(css)) \o "\"", html)
    ELSE Contains("<" \o css, html)

ZhihuSelectors ==
    <<[element |-> "Title", css |-> <<".Post-Title", "h1">>],
      [element |-> "Content", css |-> <<".Post-RichTextContainer", ".RichContent-inner", ".Post-Header">>],
      [element |-> "Author", css |-> <<".UserLink-link", ".AuthorInfo-name">>],
      [element |-> "Publish Date", css |-> <<".ContentItem-time", ".Post-meta", ".RichContent-meta">>],
      [element |-> "Comments", css |-> <<".Comments-section", ".Comment", ".DiscussSection">>]>>

ZhihuFound(html) ==
    LET Found(entry) == \E i \in 1..Len(entry.css) : HasCss(html, entry.css[i])
        found == SelectSeq(ZhihuSelectors, Found)
    IN  [i \in 1..Len(found) |-> [element |-> found[i].element]]

GenericCss == <<"h1", "h2", "h3", ".author", ".pub-date", ".meta", ".time", ".name">>

\* soup.select('.field, [class*="field"], [id*="field"], h1, h2, h3, ...') is non-empty
FieldFound(html, field) ==
    \/ \E i \in 1..Len(GenericCss) : HasCss(html, GenericCss[i])
    \/ \E i \in 1..Len(html) :
          /\ \E attr \in {"class=\"", "id=\""} : StartsAt(html, i, attr)
          /\ LET from == IndexFrom(html, "\"", i) + 1
                 to == IndexFrom(html, "\"", from)
             IN  to > 0 /\ Contains(field, Slice(html, from, to - 1))

\* str.title() of a lower-case word
RECURSIVE TitleCase(_, _)
TitleCase(word, after_letter) ==
    IF word = "" THEN ""
    ELSE LET c == CharAt(word, 1)
             letter == \E i \in 1..Len(LowerCase) : CharAt(LowerCase, i) = c
             up == IF letter /\ ~after_letter
                   THEN CharAt(UpperCase, CHOOSE i \in 1..Len(LowerCase) : CharAt(LowerCase, i) = c)
                   ELSE c
         IN  up \o TitleCase(Slice(word, 2, Len(word)), letter)

\* the loop over field_names, from the k-th field on
RECURSIVE FieldSelectors(_, _, _, _)
FieldSelectors(html, field_names, k, selectors) ==
    IF k > Len(field_names) THEN selectors
    ELSE LET field == field_names[k]
             known == \E i \in 1..Len(selectors) : Lower(selectors[i].element) = field
         IN  IF ~known /\ FieldFound(html, field)
             THEN FieldSelectors(html, field_names, k + 1,
                                 Append(selectors, [element |-> TitleCase(field, FALSE)]))
             ELSE FieldSelectors(html, field_names, k + 1, selectors)

generate_fallback_selectors(html, description) ==
    IF html = "" THEN [if_no_api |-> << >>]
    ELSE IF TitleText(html) # NoText /\ Contains(SecurityVerification, TitleText(html))
    THEN [if_no_api |-> <<[element |-> "Security Verification Detected"]>>,
          anti_bot_detected |-> TRUE,
          suggestion |-> "Try using proxies, rotating user agents, or solving captcha manually"]
    ELSE [if_no_api |-> FieldSelectors(html, WordRuns(Lower(description), 1, ""), 1,
                                       ZhihuFound(html))]

-----------------------------------------------------------------------------
(* Crawl Controller: WebAPICrawlerAnalyzer.__init__, analyze and           *)
(* _crawl_and_analyze_with_instructions, and the entry point               *)
(* webapi_crawler_analyzer_skill.                                          *)

\* a Python value that is a bool or a list, with its truth value
PyBool(b) == [type |-> "bool", truth |-> b, items |-> << >>]
PyList(items) == [type |-> "list", truth |-> items # << >>, items |-> items]

\* the value of `a and b and c` for bools a, b and a list c
PyAnd(a, b, c) == IF ~a THEN PyBool(FALSE) ELSE IF ~b THEN PyBool(FALSE) ELSE PyList(c)

DisplayLimit == 10      \* next_depth_links[:10]

Returned(result) == [kind |-> "returned", result |-> result, exception |-> ""]
Raised(exception) == [kind |-> "raised", result |-> None, exception |-> exception]

\* __init__ with crawled_urls one set of the class, shared by its instances
NewAnalyzerShared(max_depth, confirm_each_depth, include_pagination) ==
    [max_depth |-> max_depth,
     confirm_each_depth |-> confirm_each_depth,
     include_pagination |-> include_pagination,
     crawled_urls |-> IF analyzer = None THEN {} ELSE analyzer.crawled_urls,
     visited_domains |-> {}]

\* lines 30-35: every instance gets sets of its own
NewAnalyzer(max_depth, confirm_each_depth, include_pagination) ==
    [max_depth |-> max_depth,
     confirm_each_depth |-> confirm_each_depth,
     include_pagination |-> include_pagination,
     crawled_urls |-> {},
     visited_domains |-> {}]

PlaceholderResult(max_depth) ==
    [execution_summary |-> "Reached max depth (" \o ToString(max_depth) \o ") or already crawled",
     recommended_apis |-> << >>,
     fallback_html_selectors |-> [if_no_api |-> << >>],
     next_actions |-> [requires_confirmation |-> PyBool(FALSE),
                       available_depth_links |-> << >>,
                       pagination_api_detected |-> NoText]]

api_to_dict(api) ==
    [url |-> api.url, method |-> api.method, priority_score |-> api.priority_score,
     matched_fields |-> api.matched_fields, sample_data |-> api.sample_data,
     direct_use_example |-> api.direct_use_example]

\* line 121 with the comparison one level late
MoreDepthRemainsAtDepth(self, depth) == depth < self.max_depth

\* line 121: depth + 1 < self.max_depth
MoreDepthRemains(self, depth) == depth + 1 < self.max_depth

\* The method from the capture on: requests and html are what the Capture
\* Collector returned, next_depth_links the list the link set was turned into.
\* line 134 without the slice
AvailableDepthLinksUncut(next_depth_links) == next_depth_links

\* line 134: next_depth_links[:10]
AvailableDepthLinks(next_depth_links) ==
    SubSeq(next_depth_links, 1, Min(Len(next_depth_links), DisplayLimit))

\* lines 107-111: selectors are generated only when no API was recommended
FallbackSelectors(recommended_apis, html, description) ==
    IF recommended_apis = << >> THEN generate_fallback_selectors(html, description)
    ELSE << >>

\* lines 116-137: the result built from the analysis
BuildResult(self, depth, description, requests, html, next_depth_links, analysis) ==
    [execution_summary |-> "Successfully executed interaction steps, captured "
                               \o ToString(Len(requests)) \o " network requests",
     recommended_apis |-> [i \in 1..Len(analysis.api_endpoints) |->
                              api_to_dict(analysis.api_endpoints[i])],
     fallback_html_selectors |-> FallbackSelectors(analysis.api_endpoints, html, description),
     next_actions |-> [requires_confirmation |-> PyAnd(self.confirm_each_depth,
                                                       MoreDepthRemains(self, depth),
                                                       next_depth_links),
                       available_depth_links |-> AvailableDepthLinks(next_depth_links),
                       pagination_api_detected |-> analysis.pagination_api]]

AnalyzeCapture(self, kws, depth, description, requests, html, next_depth_links) ==
    BuildResult(self, depth, description, requests, html, next_depth_links,
                analyze_requests_intelligently(requests, kws))

\* What _capture_network_requests_with_interaction did: the browser is started
\* outside the method's try block, so a failure to start it is raised to the
\* caller; otherwise the method returns (requests, html_content).
BrowserError == "BrowserType.launch: Executable doesn't exist"
CaptureReturned(requests, html) ==
    [raised |-> FALSE, recovered |-> FALSE, requests |-> requests, html |-> html]
CaptureRaised == [raised |-> TRUE, recovered |-> FALSE, requests |-> << >>, html |-> ""]

\* lines 260-273 with the exception raised again
CaptureRecoveredRaisingAgain(requests, html, kept, readable) ==
    [raised |-> TRUE, recovered |-> TRUE, requests |-> << >>, html |-> ""]

\* lines 260-273: navigation or interaction failed after `kept` exchanges were
\* recorded; the exception is caught, html_content is page.content() when the
\* page can still be read and "" when it cannot, the browser is closed and
\* (requests, html_content) is returned
CaptureRecovered(requests, html, kept, readable) ==
    [raised |-> FALSE, recovered |-> TRUE, requests |-> SubSeq(requests, 1, kept),
     html |-> IF readable THEN html ELSE ""]

\* line 82: the call returns the placeholder
ReturnsPlaceholder(self, url, depth) == depth >= self.max_depth \/ url \in self.crawled_urls

\* the handler without line 94's self.crawled_urls.add(url)
crawl_and_analyze_without_marking(self, url, kws, depth, description, capture, link_order) ==
    IF ReturnsPlaceholder(self, url, depth)
    THEN [self |-> self, out |-> Returned(PlaceholderResult(self.max_depth)), captured |-> FALSE]
    ELSE IF capture.raised
         THEN [self |-> self, out |-> Raised(BrowserError), captured |-> TRUE]
         ELSE [self |-> self,
               out |-> Returned(AnalyzeCapture(self, kws, depth, description,
                                               capture.requests, capture.html, link_order)),
               captured |-> TRUE]

\* [self, out, captured]: the instance afterwards, what the call produced and
\* whether the Capture Collector was invoked.  capture is what the collector
\* does when invoked, link_order the order list(links) comes out in.
crawl_and_analyze_with_instructions(self, url, kws, depth, description, capture, link_order) ==
    IF ReturnsPlaceholder(self, url, depth)
    THEN [self |-> self, out |-> Returned(PlaceholderResult(self.max_depth)), captured |-> FALSE]
    ELSE LET visited == [self EXCEPT !.crawled_urls = self.crawled_urls \cup {url}]
         IN  IF capture.raised
             THEN [self |-> visited, out |-> Raised(BrowserError), captured |-> TRUE]
             ELSE [self |-> visited,
                   out |-> Returned(AnalyzeCapture(visited, kws, depth, description,
                                                   capture.requests, capture.html, link_order)),
                   captured |-> TRUE]

NoUrlFound == "No URL found in instructions"

\* lines 44-52: analyze once the URL was looked for
AnalyzeUrl(self, url, description, capture, link_order) ==
    IF url = NoText
    THEN [self |-> self, out |-> Raised(NoUrlFound), captured |-> FALSE]
    ELSE crawl_and_analyze_with_instructions(self, url, extract_keywords(description),
                                             0, description, capture, link_order)

analyze(self, instructions, description, capture, link_order) ==
    AnalyzeUrl(self, extract_url_from_instructions(instructions), description,
               capture, link_order)

ErrorResult(exception) ==
    [execution_summary |-> "Error during analysis: " \o exception,
     recommended_apis |-> << >>,
     fallback_html_selectors |-> [if_no_api |-> << >>],
     next_actions |-> [requires_confirmation |-> PyBool(FALSE),
                       available_depth_links |-> << >>,
                       pagination_api_detected |-> NoText]]

\* the entry point without its try/except
webapi_crawler_analyzer_skill_uncaught(instructions, description, max_depth, confirm, incl, capture, link_order) ==
    analyze(NewAnalyzer(max_depth, confirm, incl), instructions, description, capture, link_order)

\* lines 715-726: except Exception as e: return the error-shaped result
CatchException(done) ==
    IF done.out.kind = "raised"
    THEN [done EXCEPT !.out = Returned(ErrorResult(done.out.exception))]
    ELSE done

webapi_crawler_analyzer_skill(instructions, description, max_depth, confirm, incl, capture, link_order) ==
    CatchException(analyze(NewAnalyzer(max_depth, confirm, incl), instructions,
                           description, capture, link_order))

-----------------------------------------------------------------------------
(* The crawl controller: sessions are constructed and called, directly or  *)
(* through the entry point, against a site whose capture is fixed for the  *)
(* run.  requests_data and html_content hold what the Capture Collector    *)
(* returns when the browser starts, data_description the caller's          *)
(* description; analyzer is the session observed, call the last call made, *)
(* out what it produced, captures the number of times the Capture          *)
(* Collector was invoked for each URL in the observed session.             *)

MaxVisits == 2

LinkPage ==
    "<a href=\"/about\">A</a><a href=\"https://y.com/\">Y</a>"
        \o "<A id='in' HREF='/Login/'>I</A><a href=\"/l?page=2\">N</a>"

\* the list `requests` after the handler ran for each finished request in turn
RECURSIVE CaptureAll(_, _)
CaptureAll(requests, finished) ==
    IF finished = << >> THEN requests
    ELSE CaptureAll(handle_request_finished(requests, Head(finished)), Tail(finished))

LinkDocument == Finished(PageUrl, "GET", "document", 200, LinkPage, NoHeaders)
PagedXhr == Finished(PagedApiUrl, "GET", "xhr", 200, ObjPrice, JsonHeaders)
PlainXhr == Finished(ApiUrl, "GET", "xhr", 200, ObjBoth, NoHeaders)

Sites ==
    {CaptureReturned(<< >>, ""),
     CaptureReturned(CaptureAll(<< >>, <<LinkDocument>>), "<h1>Phone X</h1>"),
     CaptureReturned(CaptureAll(<< >>, <<LinkDocument, PagedXhr>>), "<p class=\"price\">1</p>"),
     CaptureReturned(CaptureAll(<< >>, <<PlainXhr>>), "<p>Phone X</p>"),
     CaptureReturned(CaptureAll(<< >>, <<Finished(PageUrl, "GET", "document", 200,
                                                 NextDataTag(ObjPrice), NoHeaders)>>),
                     "<title>" \o SecurityVerification \o "</title>")}

SessionDescriptions == {"price, name", "stock"}

Instructions ==
    {"click the search button",
     "Open https://x.com/items, then click search",
     "Visit 'https://x.com/about' and https://x.com/items"}

SeedUrls == {extract_url_from_instructions(i) : i \in Instructions} \ {NoText}

Depths == 0..MaxDepth

Init ==
    /\ \E site \in Sites :
          /\ requests_data = site.requests
          /\ html_content = site.html
    /\ data_description \in SessionDescriptions
    /\ ranked = None
    /\ NoSurface
    /\ NoProbe
    /\ analyzer = None
    /\ call = None
    /\ out = None
    /\ captures = [u \in SeedUrls |-> 0]

\* what the Capture Collector does when the page loads and the interaction
\* succeeds, or when the browser cannot be started
Captures == {CaptureReturned(requests_data, html_content), CaptureRaised}

\* what it does when navigation or interaction fails after the browser started
RecoveredCaptures ==
    {CaptureRecovered(requests_data, html_content, kept, readable) :
        kept \in 0..Len(requests_data), readable \in BOOLEAN}

\* the outcomes of the Capture Collector for a call that reaches line 97; a
\* call that returns or raises before it does not invoke the collector
CapturesAt(self, url, depth, outcomes) ==
    IF url = NoText \/ ReturnsPlaceholder(self, url, depth) THEN {CaptureRaised}
    ELSE outcomes

\* the orders list(links) can come out in when the call reaches line 114
LinkOrders(self, url, depth, capture) ==
    IF url = NoText \/ ReturnsPlaceholder(self, url, depth) \/ capture.raised THEN {<< >>}
    ELSE Orderings(extract_links_for_next_depth(capture.requests, url,
                                                self.include_pagination))

Counted(done, url) ==
    IF done.captured THEN [captures EXCEPT ![url] = @ + 1] ELSE captures

\* analyzer = WebAPICrawlerAnalyzer(max_depth, confirm_each_depth, include_pagination)
New ==
    \E max_depth \in Depths, confirm_each_depth \in BOOLEAN, include_pagination \in BOOLEAN :
        /\ analyzer' = NewAnalyzer(max_depth, confirm_each_depth, include_pagination)
        /\ call' = None
        /\ out' = None
        /\ captures' = [u \in SeedUrls |-> 0]
        /\ UNCHANGED <<content, keywords, scored, before, requests_data, html_content,
                       data_description, ranked, paged, linked>>

\* await analyzer.analyze(instructions, data_description), the Capture
\* Collector doing one of outcomes
AnalyzeOver(outcomes) ==
    /\ analyzer # None
    /\ \E instructions \in Instructions :
          \E url \in {extract_url_from_instructions(instructions)} :
              /\ url # NoText => captures[url] < MaxVisits
              /\ \E capture \in CapturesAt(analyzer, url, 0, outcomes) :
                  \E link_order \in LinkOrders(analyzer, url, 0, capture) :
                    \E done \in {analyze(analyzer, instructions, data_description,
                                         capture, link_order)} :
                        /\ analyzer' = done.self
                        /\ out' = done.out
                        /\ captures' = IF url = NoText THEN captures ELSE Counted(done, url)
                        /\ call' = [op |-> "analyze", url |-> url, depth |-> 0,
                                    max_depth |-> analyzer.max_depth,
                                    confirm_each_depth |-> analyzer.confirm_each_depth,
                                    include_pagination |-> analyzer.include_pagination,
                                    visited |-> url \in analyzer.crawled_urls,
                                    fresh |-> analyzer.crawled_urls = {},
                                    capture_returned |-> done.captured /\ ~capture.raised,
                                    capture_recovered |-> done.captured /\ capture.recovered,
                                    kept |-> Len(capture.requests)]
    /\ UNCHANGED <<content, keywords, scored, before, requests_data, html_content,
                   data_description, ranked, paged, linked>>

Analyze == AnalyzeOver(Captures)

\* await analyzer._crawl_and_analyze_with_instructions(url, ..., depth, ...)
Crawl ==
    /\ analyzer # None
    /\ \E url \in SeedUrls, depth \in Depths :
          /\ captures[url] < MaxVisits
          /\ \E capture \in CapturesAt(analyzer, url, depth, Captures) :
              \E link_order \in LinkOrders(analyzer, url, depth, capture) :
                \E done \in {crawl_and_analyze_with_instructions(
                                  analyzer, url, extract_keywords(data_description), depth,
                                  data_description, capture, link_order)} :
                    /\ analyzer' = done.self
                    /\ out' = done.out
                    /\ captures' = Counted(done, url)
                    /\ call' = [op |-> "crawl", url |-> url, depth |-> depth,
                                max_depth |-> analyzer.max_depth,
                                confirm_each_depth |-> analyzer.confirm_each_depth,
                                include_pagination |-> analyzer.include_pagination,
                                visited |-> url \in analyzer.crawled_urls,
                                fresh |-> analyzer.crawled_urls = {},
                                capture_returned |-> done.captured /\ ~capture.raised,
                                capture_recovered |-> done.captured /\ capture.recovered,
                                kept |-> Len(capture.requests)]
    /\ UNCHANGED <<content, keywords, scored, before, requests_data, html_content,
                   data_description, ranked, paged, linked>>

\* await webapi_crawler_analyzer_skill(instructions, data_description, max_depth,
\* confirm_each_depth, include_pagination): a session of its own, gone on return.
\* What it does depends on its arguments alone, so it is explored as the first
\* call of a run.
Skill ==
    /\ analyzer = None
    /\ call = None
    /\ \E instructions \in Instructions, max_depth \in Depths,
          confirm_each_depth \in BOOLEAN, include_pagination \in BOOLEAN :
          \E url \in {extract_url_from_instructions(instructions)} :
            \E capture \in CapturesAt(NewAnalyzer(max_depth, confirm_each_depth,
                                                   include_pagination), url, 0,
                                       Captures) :
              \E link_order \in LinkOrders(NewAnalyzer(max_depth, confirm_each_depth,
                                                        include_pagination),
                                            url, 0, capture) :
                 \E done \in {webapi_crawler_analyzer_skill(
                                  instructions, data_description, max_depth,
                                  confirm_each_depth, include_pagination, capture, link_order)} :
                     /\ analyzer' = None
                     /\ out' = done.out
                     /\ captures' = [u \in SeedUrls |->
                                        IF done.captured /\ u = url THEN 1 ELSE 0]
                     /\ call' = [op |-> "skill", url |-> url, depth |-> 0,
                                 max_depth |-> max_depth,
                                 confirm_each_depth |-> confirm_each_depth,
                                 include_pagination |-> include_pagination,
                                 visited |-> FALSE,
                                 fresh |-> TRUE,
                                 capture_returned |-> done.captured /\ ~capture.raised,
                                 capture_recovered |-> done.captured /\ capture.recovered,
                                 kept |-> Len(capture.requests)]
    /\ UNCHANGED <<content, keywords, scored, before, requests_data, html_content,
                   data_description, ranked, paged, linked>>

Next == New \/ Analyze \/ Crawl \/ Skill

Spec == Init /\ [][Next]_vars

-----------------------------------------------------------------------------
(* Sessions side by side: one session is driven through its analyzer while *)
(* the entry point, which builds an analyzer of its own, is called from    *)
(* another thread; captures may fail after the browser started.            *)

InitSessions ==
    /\ requests_data = CaptureAll(<< >>, <<LinkDocument, PagedXhr>>)
    /\ html_content = "<p class=\"price\">1</p>"
    /\ data_description = "price, name"
    /\ ranked = None
    /\ NoSurface
    /\ NoProbe
    /\ analyzer = None
    /\ call = None
    /\ out = None
    /\ captures = [u \in SeedUrls |-> 0]

EntryPointReturned == call # None /\ call.op = "skill"

\* analyzer = WebAPICrawlerAnalyzer(...), by the thread that drives a session
SessionNew == ~EntryPointReturned /\ New

\* await analyzer.analyze(instructions, data_description) on that session
SessionAnalyze == ~EntryPointReturned /\ AnalyzeOver(Captures \cup RecoveredCaptures)

\* webapi_crawler_analyzer_skill(instructions, data_description, max_depth)
\* from another thread, with the default confirm_each_depth = True and
\* include_pagination = False. It leaves the driven session as it is, so it is
\* explored as the last call of a run.
SessionSkill ==
    /\ ~EntryPointReturned
    /\ \E instructions \in Instructions, max_depth \in Depths :
          \E url \in {extract_url_from_instructions(instructions)},
             self \in {NewAnalyzer(max_depth, TRUE, FALSE)} :
            \E capture \in CapturesAt(self, url, 0, Captures \cup RecoveredCaptures) :
              \E link_order \in LinkOrders(self, url, 0, capture) :
                 \E done \in {webapi_crawler_analyzer_skill(
                                  instructions, data_description, max_depth,
                                  TRUE, FALSE, capture, link_order)} :
                     /\ out' = done.out
                     /\ call' = [op |-> "skill", url |-> url, depth |-> 0,
                                 max_depth |-> max_depth,
                                 confirm_each_depth |-> TRUE,
                                 include_pagination |-> FALSE,
                                 visited |-> url \in self.crawled_urls,
                                 fresh |-> self.crawled_urls = {},
                                 capture_returned |-> done.captured /\ ~capture.raised,
                                 capture_recovered |-> done.captured /\ capture.recovered,
                                 kept |-> Len(capture.requests)]
    /\ UNCHANGED <<content, keywords, scored, before, requests_data, html_content,
                   data_description, ranked, analyzer, captures, paged, linked>>

NextSessions == SessionNew \/ SessionAnalyze \/ SessionSkill

SpecSessions == InitSessions /\ [][NextSessions]_vars

-----------------------------------------------------------------------------
(* Link extraction on its own: a batch of documents built from anchors is  *)
(* handed to _extract_links_for_next_depth, the set it builds is turned    *)
(* into a list and the list is cut to the display limit.                   *)

MaxAnchors == 2        \* most anchors in a generated page
MaxOrdered == 3        \* largest link set all of whose orders are explored
LongPageLinks == 12    \* numbered links on the long page

LinkHrefs ==
    {"/about", "/Login/", "/admin/x", "https://x.com/AUTH/me", "https://y.com/b",
     "//y.com/a", "?page=2", "/a/page/5", "https://X.com/b"}

Anchors ==
    {"<a href=\"" \o href \o "\">t</a>" : href \in LinkHrefs}
        \cup {"<A class='x' HREF='/Auth/'>t</A>"}

RECURSIVE Concat(_)
Concat(texts) == IF texts = << >> THEN "" ELSE Head(texts) \o Concat(Tail(texts))

RECURSIVE NumberedAnchors(_)
NumberedAnchors(n) ==
    IF n = 0 THEN ""
    ELSE NumberedAnchors(n - 1) \o "<a href=\"/n" \o ToString(n) \o "\">t</a>"

LongPage ==
    "<a href=\"/list?page=2\">t</a><a href=\"/admin/\">t</a>" \o NumberedAnchors(LongPageLinks)

FrameUrl == "https://y.com/frame"
FramePage == "<a href=\"/about\">t</a><a href=\"https://x.com/from-frame\">t</a>"

LinkPages == {Concat(anchors) : anchors \in SeqsUpTo(Anchors, MaxAnchors)} \cup {LongPage}

LinkBatches ==
    {CaptureAll(<< >>, <<Finished(PageUrl, "GET", "document", 200, page, NoHeaders)>>) :
        page \in LinkPages}
        \cup {CaptureAll(<< >>, <<Finished(PageUrl, "GET", "document", 200, LinkPage, NoHeaders),
                                  Finished(FrameUrl, "GET", "document", 200, FramePage, NoHeaders)>>),
              CaptureAll(<< >>, <<Finished(PageUrl, "GET", "document", 404, LinkPage, NoHeaders),
                                  Finished(ScriptUrl, "GET", "script", 200, LinkPage, NoHeaders)>>)}

InitLinks ==
    /\ requests_data \in LinkBatches
    /\ html_content = ""
    /\ data_description = ""
    /\ ranked = None
    /\ NoSurface
    /\ NoSession
    /\ NoProbe

\* the elements of a set, one after the other
RECURSIVE SeqOf(_)
SeqOf(S) ==
    IF S = {} THEN << >>
    ELSE Append(SeqOf(S \ {CHOOSE x \in S : TRUE}), CHOOSE x \in S : TRUE)

Rotations(q) == {SubSeq(q, k, Len(q)) \o SubSeq(q, 1, k - 1) : k \in 1..Len(q)}

\* the lists list(links) can be: every order of a small set; of a larger set
\* the rotations of one order, which put each link inside and outside the cut
ListOrders(S) == IF Cardinality(S) <= MaxOrdered THEN Orderings(S) ELSE Rotations(SeqOf(S))

\* next_depth_links = self._extract_links_for_next_depth(requests, url, ...),
\* and next_depth_links[:10]
ExtractLinks ==
    /\ linked = None
    /\ \E base_url \in {PageUrl}, include_pagination \in BOOLEAN :
          \E next_depth_links \in ListOrders(extract_links_for_next_depth(
                                       requests_data, base_url, include_pagination)) :
             linked' = [base_url |-> base_url,
                        include_pagination |-> include_pagination,
                        next_depth_links |-> next_depth_links,
                        available_depth_links |-> AvailableDepthLinks(next_depth_links)]
    /\ UNCHANGED <<content, keywords, scored, before, requests_data, html_content,
                   data_description, ranked, analyzer, call, out, captures, paged>>

NextLinks == ExtractLinks

SpecLinks == InitLinks /\ [][NextLinks]_vars

-----------------------------------------------------------------------------
(* Pagination detection on its own: a URL put together from tokens is      *)
(* classified by _is_pagination_request.                                   *)

MaxTokens == 4         \* most tokens behind the base of a generated URL

UrlBase == "https://x.com/list"
UrlTokens == {"?", "&", "/", "#", "page", "p", "=", "5", "x"}

ExampleUrls ==
    {"https://x.com/list?page=2", "https://x.com/list?p=3", "https://x.com/page/5",
     "https://x.com/5/page", "https://x.com/list?foo=page", "https://x.com/list?PAGE=2",
     "https://x.com/a/Page/12", "https://x.com/5/pages", "https://x.com/list?page=2x"}

PaginationUrls ==
    {UrlBase \o Concat(tokens) : tokens \in SeqsUpTo(UrlTokens, MaxTokens)} \cup ExampleUrls

InitPagination ==
    /\ NoSurface
    /\ NoBatch
    /\ NoSession
    /\ NoProbe

\* self._is_pagination_request(url)
ClassifyUrl ==
    /\ paged = None
    /\ \E url \in PaginationUrls :
          paged' = [url |-> url, pagination |-> is_pagination_request(url)]
    /\ UNCHANGED <<content, keywords, scored, before, requests_data, html_content,
                   data_description, ranked, analyzer, call, out, captures, linked>>

NextPagination == ClassifyUrl

SpecPagination == InitPagination /\ [][NextPagination]_vars

-----------------------------------------------------------------------------
(* Properties.                                                             *)

InUnitInterval(r) == RatLeq(Zero, r) /\ RatLeq(r, One)

KeywordOccurs(k, text) == Contains(Lower(k), Lower(text))
NoKeywordOccurs(kws, text) == \A i \in 1..Len(kws) : ~KeywordOccurs(kws[i], text)

\* C1 (as stated): for a non-empty keyword list the score lies in [0,1] and is 0
\* exactly when no keyword is a case-insensitive substring of the surface.
C1_ScoreZeroIffNoMatch ==
    (scored # None /\ Len(keywords) > 0) =>
        /\ InUnitInterval(scored.score)
        /\ (scored.score = Zero) <=> NoKeywordOccurs(keywords, content)

\* C1 (amended): for a non-empty keyword list the score lies in [0,1]; it is 0
\* exactly when no keyword is a case-insensitive substring of the surface and the
\* surface does not contain both braces; the matched list is empty exactly when
\* no keyword occurs.
C1_ScoreRange ==
    (scored # None /\ Len(keywords) > 0) =>
        /\ InUnitInterval(scored.score)
        /\ (scored.score = Zero) <=>
              (NoKeywordOccurs(keywords, content) /\ ~LooksStructured(content))
        /\ (scored.matched = << >>) <=> NoKeywordOccurs(keywords, content)

\* C1 witness: a scored surface with both braces in which no keyword occurs, and
\* whose score is the bare bonus.
C1_Witness ==
    /\ scored # None
    /\ Len(keywords) > 0
    /\ NoKeywordOccurs(keywords, content)
    /\ LooksStructured(content)
    /\ scored.score = StructuralBonus

NoNewMatch ==
    \A i \in 1..Len(keywords) :
        (\E m \in 1..Len(scored.matched) : scored.matched[m] = keywords[i])
            => (\E m \in 1..Len(before.matched) : before.matched[m] = keywords[i])

\* C3 (as stated): adding a brace pair to a surface that lacked one, without
\* adding any keyword match, moves the score from s to exactly min(s + 0.2, 1.0).
C3_BracePairAddsBonus ==
    (before # None /\ NoNewMatch) =>
        scored.score = RatMin(RatAdd(before.score, StructuralBonus), One)

\* C3 (amended): adding a brace pair to a surface that lacked one, without
\* changing which keywords match, moves the score from s to exactly
\* min(s + 0.2, 1.0); a score of 1.0 stays 1.0.
C3_BracePairKeepsMatches ==
    (before # None /\ before.matched = scored.matched) =>
        /\ scored.score = RatMin(RatAdd(before.score, StructuralBonus), One)
        /\ before.score = One => scored.score = One

\* C3 witness: a pair was added, the matches are the same, and the score rose
\* from 1/2 to 7/10.
C3_Witness ==
    /\ before # None
    /\ before.matched = scored.matched
    /\ before.score = <<1, 2>>
    /\ scored.score = <<7, 10>>

\* C3, the cap: a pair was added to a surface already scoring 1.0.
C3_WitnessAtCap ==
    /\ before # None
    /\ before.matched = scored.matched
    /\ before.score = One
    /\ scored.score = One

RankedKeywords == extract_keywords(data_description)

\* every endpoint has matches, each a keyword that occurs in a captured body of
\* the endpoint's url
MatchesOccur(endpoints, kws, requests) ==
    \A i \in 1..Len(endpoints) :
        /\ endpoints[i].matched_fields # << >>
        /\ \A m \in 1..Len(endpoints[i].matched_fields) :
              /\ \E k \in 1..Len(kws) : kws[k] = endpoints[i].matched_fields[m]
              /\ \E r \in 1..Len(requests) :
                    /\ requests[r].url = endpoints[i].url
                    /\ requests[r].response # NoText
                    /\ KeywordOccurs(endpoints[i].matched_fields[m], requests[r].response)

\* C2: every endpoint the ranker returns has a non-empty matched_fields, each
\* matched field is a keyword, and it occurs (ignoring case) in the body of a
\* captured exchange with the endpoint's url: a body in which no keyword occurs
\* yields no endpoint, braces or not.
C2_CandidatesHaveMatches ==
    ranked # None => MatchesOccur(ranked.api_endpoints, RankedKeywords, requests_data)

\* a JSON xhr body with both braces in which no keyword occurs, and whose url has
\* no endpoint
UnmatchedStructuredBody(req, kws, endpoints) ==
    /\ req.resource_type = "xhr"
    /\ is_json_response(req)
    /\ req.response # NoText
    /\ json_loads(req.response).ok
    /\ LooksStructured(req.response)
    /\ NoKeywordOccurs(kws, req.response)
    /\ \A i \in 1..Len(endpoints) : endpoints[i].url # req.url

\* C2 witness: an analysed batch that holds a JSON body with both braces in which
\* no keyword occurs, next to an exchange that did yield an endpoint; the
\* unmatched body's url has no endpoint.
C2_Witness ==
    /\ ranked # None
    /\ ranked.api_endpoints # << >>
    /\ \E kws \in {RankedKeywords} : \E r \in 1..Len(requests_data) :
          UnmatchedStructuredBody(requests_data[r], kws, ranked.api_endpoints)

\* the candidates one exchange contributes through the extractor of its class
ExtractorOutput(req, kws) ==
    IF req.resource_type = "document" THEN find_embedded_json_in_html(req, kws)
    ELSE IF ~Truthy(req.response) THEN << >>
    ELSE IF req.resource_type \in {"xhr", "fetch"}
         THEN IF is_json_response(req) THEN analyze_json_response_intelligently(req, kws)
              ELSE << >>
    ELSE IF req.resource_type = "script" THEN analyze_js_for_json(req, kws)
    ELSE analyze_text_response(req, kws)

ClassOf(req) ==
    IF req.resource_type = "document" THEN 1
    ELSE IF req.resource_type \in {"xhr", "fetch"} THEN 2
    ELSE IF req.resource_type = "script" THEN 3
    ELSE 4

\* discovery order: class by class, capture order within a class
DiscoveryOrder(requests, kws) ==
    Flatten([c \in 1..4 |->
        Flatten([i \in 1..Len(requests) |->
            IF ClassOf(requests[i]) = c THEN ExtractorOutput(requests[i], kws)
            ELSE << >>])])

WithScore(endpoints, score) ==
    LET Has(e) == e.priority_score = score
    IN  SelectSeq(endpoints, Has)

ScoresOf(endpoints) == {endpoints[i].priority_score : i \in 1..Len(endpoints)}

\* result holds the endpoints of found, in non-increasing score order, those of
\* equal score in the order of found
StableDescending(result, found) ==
    /\ Len(result) = Len(found)
    /\ \A i \in 1..(Len(result) - 1) :
          RatLeq(result[i + 1].priority_score, result[i].priority_score)
    /\ \A score \in ScoresOf(found) \cup ScoresOf(result) :
          WithScore(result, score) = WithScore(found, score)

\* C4: the ranked list is a permutation of the candidates of the four extractors,
\* in non-increasing score order, and the candidates of equal score are in
\* discovery order (Document, XHR/Fetch, Script, Other; capture order within).
C4_RankedStableDescending ==
    ranked # None =>
        StableDescending(ranked.api_endpoints, DiscoveryOrder(requests_data, RankedKeywords))

\* an xhr exchange captured before a document, three endpoints not in discovery
\* order, the first two tied (the document's ahead of the xhr's), the third lower
TieAcrossClasses(requests, result, found) ==
    /\ Len(requests) = 2
    /\ requests[1].resource_type = "xhr"
    /\ requests[2].resource_type = "document"
    /\ Len(result) = 3
    /\ result # found
    /\ result[1].priority_score = result[2].priority_score
    /\ result[1].url = PageUrl
    /\ result[2].url = ApiUrl
    /\ RatLess(result[3].priority_score, result[2].priority_score)

\* C4 witness: an xhr exchange captured before a document; the ranked list has
\* three endpoints, differs from the discovery order, and holds a tie between
\* a document candidate and the xhr candidate, the document's first.
C4_Witness ==
    /\ ranked # None
    /\ Len(requests_data) = 2
    /\ TieAcrossClasses(requests_data, ranked.api_endpoints,
                        DiscoveryOrder(requests_data, RankedKeywords))

-----------------------------------------------------------------------------
(* Properties of the extractors on malformed bodies, over SpecBodies.      *)

\* the fragments the Document and Script extractors take out of a body
EmbeddedFragments(req) ==
    IF req.resource_type = "document"
    THEN ScriptBlocks(req.response, NextDataAttr, 1)
             \o ScriptBlocks(req.response, JsonTypeAttr, 1)
             \o WindowDataBlocks(req.response, 1)
    ELSE IF req.resource_type = "script"
    THEN JsonParseArgs(req.response, QuoteChars \cup {Backtick}, 1)
             \o JsonParseArgs(req.response, {Backtick}, 1)
    ELSE << >>

NoFragmentParses(fragments) ==
    \A i \in 1..Len(fragments) : ~json_loads(CleanMatch(Strip(fragments[i]))).ok

\* a body that does not parse as JSON and holds no embedded fragment that does
Malformed(req) ==
    /\ req.response # NoText
    /\ ~json_loads(req.response).ok
    /\ NoFragmentParses(EmbeddedFragments(req))

\* C14 (as stated): for every exchange whose body is malformed, the extractor of
\* its class returns an empty candidate list.
C14_MalformedYieldsNothing ==
    ranked # None =>
        \A r \in 1..Len(requests_data) :
            Malformed(requests_data[r])
                => ExtractorOutput(requests_data[r], RankedKeywords) = << >>

\* what an extractor may return for a malformed body: nothing, or for the Other
\* extractor one candidate when a keyword occurs in the body
MalformedOutput(req, kws, output) ==
    IF ClassOf(req) = 4 /\ Truthy(req.response) /\ ~NoKeywordOccurs(kws, req.response)
    THEN Len(output) = 1 /\ output[1].url = req.url
    ELSE output = << >>

ParsedOrOther(req) == ~Malformed(req) \/ ClassOf(req) = 4

\* the batch is ranked as the exchanges of remaining are on their own
RankedAsFrom(remaining) ==
    \/ remaining = requests_data
    \/ ranked.api_endpoints =
           analyze_requests_intelligently(remaining, RankedKeywords).api_endpoints

\* C14 (amended): for every exchange whose body is malformed, the Document,
\* XHR/Fetch and Script extractors return an empty candidate list; the Other
\* extractor, which does not parse, returns one candidate exactly when a
\* keyword occurs in the body; and the batch is ranked as it is without the
\* malformed exchanges of the first three classes.
C14_MalformedSkipped ==
    ranked # None =>
        /\ \A r \in 1..Len(requests_data) :
              Malformed(requests_data[r])
                  => MalformedOutput(requests_data[r], RankedKeywords,
                                     ExtractorOutput(requests_data[r], RankedKeywords))
        /\ RankedAsFrom(SelectSeq(requests_data, ParsedOrOther))

\* C14 witness: an XHR exchange with a JSON content-type whose body holds a
\* keyword but does not parse, captured before an exchange of another class
\* that yields the one endpoint of the batch.
C14_Witness ==
    /\ ranked # None
    /\ Len(requests_data) = 2
    /\ requests_data[1].resource_type = "xhr"
    /\ is_json_response(requests_data[1])
    /\ Malformed(requests_data[1])
    /\ ~NoKeywordOccurs(RankedKeywords, requests_data[1].response)
    /\ requests_data[2].resource_type = "script"
    /\ Len(ranked.api_endpoints) = 1
    /\ ranked.api_endpoints[1].url = requests_data[2].url

-----------------------------------------------------------------------------
(* Properties of the extractors on one embedded block, over SpecRank.      *)

\* the keywords that occur in text, in keyword order
OccurringKeywords(kws, text) ==
    LET Occurs(k) == KeywordOccurs(k, text)
    IN  SelectSeq(kws, Occurs)

\* the one candidate of a fragment: the occurring keywords in keyword order,
\* scored min(matched/|K| + 0.2, 1.0)
OneCandidate(endpoints, kws, occurring) ==
    /\ Len(endpoints) = 1
    /\ endpoints[1].matched_fields = occurring
    /\ endpoints[1].priority_score =
          RatMin(RatAdd(Rat(Len(occurring), Len(kws)), StructuralBonus), One)

\* bodies that hold one embedded JSON fragment
OneFragmentBodies ==
    {NextDataJsonTag(ObjPrice), NextDataTag(ObjPrice), JsonScriptTag(ObjBoth),
     WindowDataScript(ObjPrice), JsonParseCall("'", ObjPrice),
     JsonParseCall(Backtick, ObjPrice)}

\* C18: a batch of one Document exchange whose body is one script block with
\* the next-data identifier and the JSON MIME type, its content matching a
\* keyword, yields exactly one candidate, with the matched keywords in keyword
\* order and the score min(matched/|K| + 0.2, 1.0); and a Document or Script
\* body with one embedded JSON fragment yields at most one candidate.
C18_OneBlockOneCandidate ==
    (ranked # None /\ Len(requests_data) = 1 /\ requests_data[1].response # NoText) =>
        /\ ( /\ requests_data[1].resource_type = "document"
             /\ requests_data[1].response = NextDataJsonTag(ObjPrice)
             /\ ~NoKeywordOccurs(RankedKeywords, ObjPrice) )
               => OneCandidate(ranked.api_endpoints, RankedKeywords,
                               OccurringKeywords(RankedKeywords, ObjPrice))
        /\ ( /\ requests_data[1].resource_type \in {"document", "script"}
             /\ requests_data[1].response \in OneFragmentBodies )
               => Len(ranked.api_endpoints) <= 1

-----------------------------------------------------------------------------
(* Properties of the pagination endpoint, over SpecBodies.                 *)

\* an XHR/Fetch exchange with a body, a JSON content-type and a
\* pagination-shaped URL
PaginationExchange(req) ==
    /\ req.resource_type \in {"xhr", "fetch"}
    /\ req.response \notin {NoText, ""}
    /\ is_json_response(req)
    /\ is_pagination_request(req.url)

\* detected is the URL of the last pagination exchange of requests, None when
\* there is none
LastPaginationExchange(requests, detected) ==
    IF \E i \in 1..Len(requests) : PaginationExchange(requests[i])
    THEN \E i \in 1..Len(requests) :
            /\ PaginationExchange(requests[i])
            /\ \A j \in (i + 1)..Len(requests) : ~PaginationExchange(requests[j])
            /\ detected = requests[i].url
    ELSE detected = NoText

\* C13: pagination_api_detected is the URL of the last exchange, in capture
\* order, among the XHR/Fetch exchanges with a body, a JSON content-type and a
\* pagination-shaped URL, and None when there is none, whether or not the
\* exchange's body parses or yields a candidate.
C13_LastPaginationExchangeWins ==
    ranked # None => LastPaginationExchange(requests_data, ranked.pagination_api)

\* C13 witness: two pagination exchanges, the later one with a body that is not
\* JSON; its URL is the one detected and no endpoint has it.
C13_Witness ==
    /\ ranked # None
    /\ Len(requests_data) = 2
    /\ requests_data[1].url = PagedApiUrl
    /\ PaginationExchange(requests_data[1])
    /\ requests_data[2].url = NextPagedApiUrl
    /\ PaginationExchange(requests_data[2])
    /\ ~json_loads(requests_data[2].response).ok
    /\ ranked.pagination_api = NextPagedApiUrl
    /\ \A i \in 1..Len(ranked.api_endpoints) : ranked.api_endpoints[i].url # NextPagedApiUrl

-----------------------------------------------------------------------------
(* Properties of the crawl controller, over Spec.                          *)

NextActions == out.result.next_actions

HasResult == out # None /\ out.kind = "returned"

\* the placeholder's content: no candidates, no links, no confirmation, no
\* pagination endpoint
EmptyResult(result) ==
    /\ result.recommended_apis = << >>
    /\ result.next_actions.available_depth_links = << >>
    /\ result.next_actions.requires_confirmation = PyBool(FALSE)
    /\ result.next_actions.pagination_api_detected = NoText

OnlyCaptured(url) == captures = [u \in SeedUrls |-> IF u = url THEN 1 ELSE 0]

NothingCaptured == \A u \in DOMAIN captures : captures[u] = 0

CapturedAtMostOnce == \A u \in DOMAIN captures : captures[u] <= 1

\* a step that calls the session with a URL of its visited set
RevisitAnswersPlaceholder ==
    (call' # None /\ call'.op \in {"analyze", "crawl"} /\ call'.url \in analyzer.crawled_urls)
        => /\ out'.kind = "returned"
           /\ EmptyResult(out'.result)
           /\ captures' = captures
           /\ analyzer'.crawled_urls = analyzer.crawled_urls

\* C5: within one session the Capture Collector is invoked at most once for
\* any URL, and a call whose URL is already in the visited set returns the
\* placeholder result without a capture and without changing the visited set.
C5_UrlCapturedAtMostOnce == [](CapturedAtMostOnce) /\ [][RevisitAnswersPlaceholder]_vars

\* a second call for a captured URL, at a depth the session would still crawl
C5_Witness ==
    /\ call # None
    /\ call.op \in {"analyze", "crawl"}
    /\ call.visited
    /\ call.depth < call.max_depth
    /\ captures[call.url] = 1
    /\ HasResult

FreshAnalysis(max_depth) ==
    /\ call # None
    /\ call.op \in {"analyze", "skill"}
    /\ call.fresh
    /\ call.max_depth = max_depth
    /\ call.url # NoText

\* the links of the one visit, cut to the display limit, in some order
\* shown holds links, cut to the display limit, each once
ShowsLinks(shown, links) ==
    /\ Len(shown) = Min(Cardinality(links), DisplayLimit)
    /\ \A i \in 1..Len(shown) : shown[i] \in links
    /\ \A i \in 1..Len(shown) : \A j \in 1..Len(shown) : shown[i] = shown[j] => i = j

\* the links of the one visit, cut to the display limit, in some order
ShownFromVisit ==
    ShowsLinks(NextActions.available_depth_links,
               extract_links_for_next_depth(requests_data, call.url, call.include_pagination))

\* C6: with max_depth = 1, one analysis call on a fresh session captures the
\* seed URL exactly once and no other URL; the result of the visit lists the
\* links found on it, and requires_confirmation is not true whatever
\* confirm_each_depth is and however many links were found.
C6_DepthOneVisitsSeedOnly ==
    FreshAnalysis(1) =>
        /\ OnlyCaptured(call.url)
        /\ HasResult => ~NextActions.requires_confirmation.truth
        /\ call.capture_returned => HasResult /\ ShownFromVisit

\* confirmation was asked for and the visit found two links
C6_Witness ==
    /\ FreshAnalysis(1)
    /\ call.confirm_each_depth
    /\ call.capture_returned
    /\ Len(NextActions.available_depth_links) = 2

\* C7: with max_depth = 0 the entry point analyses the current page: the seed
\* URL of the instructions is captured once, the result is not the max-depth
\* placeholder, and no other page is visited.
C7_DepthZeroAnalysesCurrentPage ==
    (call # None /\ call.op = "skill" /\ call.max_depth = 0 /\ call.url # NoText)
        => /\ OnlyCaptured(call.url)
           /\ HasResult
           /\ out.result.execution_summary # PlaceholderResult(0).execution_summary

ResultKeys ==
    {"execution_summary", "recommended_apis", "fallback_html_selectors", "next_actions"}

NextActionKeys ==
    {"requires_confirmation", "available_depth_links", "pagination_api_detected"}

StandardShape(result) ==
    /\ DOMAIN result = ResultKeys
    /\ DOMAIN result.next_actions = NextActionKeys

\* C8: the entry point never raises: it returns a result with the standard
\* keys for every input, and when the instructions hold no URL the result
\* has a summary describing the failure, no candidates, no links,
\* requires_confirmation false and no pagination endpoint, and the Capture
\* Collector is never invoked.
C8_EntryPointNeverRaises ==
    (call # None /\ call.op = "skill")
        => /\ HasResult
           /\ StandardShape(out.result)
           /\ call.url = NoText =>
                 /\ out.result.execution_summary = "Error during analysis: " \o NoUrlFound
                 /\ EmptyResult(out.result)
                 /\ NothingCaptured

C8_Witness ==
    /\ call # None
    /\ call.op = "skill"
    /\ call.url = NoText
    /\ HasResult
    /\ out.result.fallback_html_selectors = [if_no_api |-> << >>]

\* C9: in every result requires_confirmation is a boolean, true exactly when
\* confirm_each_depth is set, depth + 1 < max_depth and at least one
\* next-depth link was found.
C9_RequiresConfirmationBoolean ==
    HasResult =>
        /\ NextActions.requires_confirmation.type = "bool"
        /\ NextActions.requires_confirmation.truth
              <=> /\ call.confirm_each_depth
                  /\ call.depth + 1 < call.max_depth
                  /\ NextActions.available_depth_links # << >>

\* C10: in every result fallback_html_selectors has the key if_no_api, a list
\* that is non-empty only when recommended_apis is empty.
C10_FallbackSelectorsWellFormed ==
    HasResult =>
        /\ "if_no_api" \in DOMAIN out.result.fallback_html_selectors
        /\ out.result.fallback_html_selectors.if_no_api # << >>
              => out.result.recommended_apis = << >>

-----------------------------------------------------------------------------
(* Properties of capture failures and of sessions, over SpecSessions.      *)

\* the result of the normal path for the exchanges kept
AnalysedFrom(result, kept, kws) ==
    /\ result.execution_summary =
          "Successfully executed interaction steps, captured "
              \o ToString(Len(kept)) \o " network requests"
    /\ Len(result.recommended_apis) = Len(analyze_requests_intelligently(kept, kws).api_endpoints)
    /\ \A i \in 1..Len(result.next_actions.available_depth_links) :
          result.next_actions.available_depth_links[i]
              \in extract_links_for_next_depth(kept, call.url, call.include_pagination)

\* C15: a capture failure after the browser started (navigation timeout,
\* interaction failure, crash during page load) does not fail the analysis
\* call: the exchanges captured before the failure are kept and analysed and
\* the call returns the success-shaped result, not an error result or an
\* exception.
C15_CaptureFailureRecovered ==
    (call # None /\ call.capture_recovered) =>
        /\ HasResult
        /\ StandardShape(out.result)
        /\ AnalysedFrom(out.result, SubSeq(requests_data, 1, call.kept),
                        extract_keywords(data_description))

\* C15 witness: a direct analysis call whose capture failed after the first of
\* two exchanges, a document, was recorded; the result lists the document's links.
C15_Witness ==
    /\ call # None
    /\ call.op = "analyze"
    /\ call.capture_recovered
    /\ Len(requests_data) = 2
    /\ call.kept = 1
    /\ HasResult
    /\ Len(NextActions.available_depth_links) = 2

\* C16: sessions share no mutable state: a new analyzer starts with an empty
\* visited set whatever earlier sessions visited, and a call of the entry
\* point runs on a visited set of its own, empty at the start, so with
\* max_depth >= 1 it never answers with the already-crawled placeholder, also
\* for a URL that a session driven side by side has visited.
C16_SessionsShareNothing ==
    /\ (call = None /\ analyzer # None) => analyzer.crawled_urls = {}
    /\ EntryPointReturned =>
          /\ call.fresh
          /\ ~call.visited
          /\ (call.url # NoText /\ call.max_depth > 0)
                => (HasResult /\ out.result # PlaceholderResult(call.max_depth))

\* C16 witness: the entry point was called for a URL in the visited set of the
\* session driven side by side, and its own capture of that URL took place.
C16_Witness ==
    /\ EntryPointReturned
    /\ analyzer # None
    /\ call.url \in analyzer.crawled_urls
    /\ call.capture_returned
    /\ HasResult
    /\ Len(out.result.recommended_apis) > 0

-----------------------------------------------------------------------------
(* Properties of link extraction, over SpecLinks.                          *)

SensitivePatterns == {"/login/", "/admin/", "/auth/"}

Shown == linked.available_depth_links

\* C11: no URL in available_depth_links contains /login/, /admin/ or /auth/,
\* compared ignoring case, whatever the batch and whatever include_pagination.
C11_NoSensitiveLinks ==
    linked # None =>
        \A i \in 1..Len(Shown) : \A pattern \in SensitivePatterns :
            ~Contains(pattern, Lower(Shown[i]))

\* C11 witness: a same-host link with /Login/ stands in the document next to
\* another link, and only the other link is listed.
C11_Witness ==
    /\ linked # None
    /\ Len(requests_data) = 1
    /\ requests_data[1].response = "<a href=\"/Login/\">t</a><a href=\"/about\">t</a>"
    /\ Shown = <<"https://x.com/about">>

NoDuplicates(q) == \A i \in 1..Len(q) : \A j \in 1..Len(q) : q[i] = q[j] => i = j

\* C17: every URL in available_depth_links has the netloc of the visited URL,
\* the list has at most 10 entries, none twice, and with include_pagination
\* false no entry is pagination-shaped.
C17_SameHostBoundedLinks ==
    linked # None =>
        /\ \A i \in 1..Len(Shown) : Netloc(Shown[i]) = Netloc(linked.base_url)
        /\ Len(Shown) <= 10
        /\ NoDuplicates(Shown)
        /\ ~linked.include_pagination =>
              \A i \in 1..Len(Shown) : ~is_pagination_request(Shown[i])

\* C17 witness: more than ten links were found, ten are listed, and with
\* include_pagination set a pagination-shaped link is among them.
C17_Witness ==
    /\ linked # None
    /\ linked.include_pagination
    /\ Len(linked.next_depth_links) > 10
    /\ Len(Shown) = 10
    /\ \E i \in 1..Len(Shown) : Shown[i] = "https://x.com/list?page=2"

-----------------------------------------------------------------------------
(* Properties of pagination detection, over SpecPagination.                *)

\* the pieces of text between the occurrences of the one-character separator
RECURSIVE Split(_, _)
Split(text, sep) ==
    IF IndexFrom(text, sep, 1) = 0 THEN <<text>>
    ELSE <<Slice(text, 1, IndexFrom(text, sep, 1) - 1)>>
             \o Split(Slice(text, IndexFrom(text, sep, 1) + 1, Len(text)), sep)

AllDigits(text) == text # "" /\ \A i \in 1..Len(text) : IsDigit(CharAt(text, i))

\* the URL behind scheme and host, without its fragment
PathAndQuery(url) ==
    Split(Slice(url, SchemeEnd(url) + 3 + Len(Netloc(url)), Len(url)), "#")[1]

UrlPath(url) == Split(PathAndQuery(url), "?")[1]

UrlQuery(url) == Slice(PathAndQuery(url), Len(UrlPath(url)) + 2, Len(url))

\* a query parameter name=<digits>, the name compared ignoring case
HasDigitsParameter(query, name) ==
    \E i \in 1..Len(Split(query, "&")) :
        /\ Lower(Slice(Split(query, "&")[i], 1, Len(name) + 1)) = name \o "="
        /\ AllDigits(Slice(Split(query, "&")[i], Len(name) + 2, Len(query)))

\* neighbouring path segments page/<digits> or <digits>/page
HasPageSegments(segments) ==
    \E i \in 1..(Len(segments) - 1) :
        \/ Lower(segments[i]) = "page" /\ AllDigits(segments[i + 1])
        \/ AllDigits(segments[i]) /\ Lower(segments[i + 1]) = "page"

PaginationShaped(url) ==
    \/ HasDigitsParameter(UrlQuery(url), "page")
    \/ HasDigitsParameter(UrlQuery(url), "p")
    \/ HasPageSegments(Split(UrlPath(url), "/"))

\* C12: _is_pagination_request answers true exactly for the URLs that have a
\* page=<digits> or p=<digits> query parameter, or a /page/<digits> or
\* /<digits>/page pair of path segments, names compared ignoring case.
C12_PaginationExactlyWhenShaped ==
    paged # None => (paged.pagination <=> PaginationShaped(paged.url))

====
